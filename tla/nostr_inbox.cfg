SPECIFICATION FairSpec
CONSTANTS
  Sender <- MCSender
  Wrap <- MCWrap
  From <- MCFrom
  Body <- MCBody
  MaxFaults = 2
  NoWrap = NoWrap
INVARIANT TypeOK
          RunsAtMostOnce
          EachFaultCostsOneWrap
PROPERTY RevokedNeverRuns
         SendersAreAnswered
