---------------------------- MODULE MCCySettings ----------------------------
\* Per setting a value that differs from those of reset and opening.  Threads and
\* requests are interchangeable.
EXTENDS CySettings, TLC

SomeValues ==
  [baud |-> {19200}, line |-> {[WordLength |-> 7, StopBits |-> "2", Parity |-> "even"]},
   flow |-> {{"cts", "rts"}}, chars |-> {<<17, 19>>}, modem |-> {"DTR"}]

\* Nothing asked for; two rates and nothing else.
NoValues == [s \in DOMAIN SomeValues |-> {}]
TwoRates == [NoValues EXCEPT !.baud = {19200, 38400}]

Interchangeable == Permutations(Threads) \cup Permutations(Waits)
=============================================================================
