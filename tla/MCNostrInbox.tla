---- MODULE MCNostrInbox ----
(* One npub sends the same request up to three times; a second one sends a   *)
(* request, and an envelope with a method that is not served.                 *)
EXTENDS NostrInbox

Phone  == "phone"
Tablet == "tablet"

MCSender == {Phone, Tablet}
MCWrap   == 1..5
MCFrom(w) == IF w <= 3 THEN Phone ELSE Tablet
MCBody(w) ==
  IF w = 5 THEN "other" ELSE "request"
====
