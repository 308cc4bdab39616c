----------------------------- MODULE SerialBus ------------------------------
(***************************************************************************)
(* What ModbusSend promises to the sensor drivers, without tasklets, timers *)
(* or frames: callers take turns on one bus; the response buffer is emptied *)
(* when a turn begins, and the only value that can enter it is the answer   *)
(* to the question of the caller whose turn it is; the caller learns the    *)
(* outcome within its turn.                                                 *)
(*                                                                          *)
(* ModbusMaster implements this specification; SensorCache is built on it.  *)
(***************************************************************************)
CONSTANTS
    Callers, NoCaller,
    Questions,  \* a question stands for its answer, too
    NoAnswer,   \* the response buffer is empty
    Failure     \* the outcomes of a turn that does not succeed

VARIABLES
    turn,       \* the caller whose turn it is, or NoCaller
    asked,      \* asked[c]: c's last question
    answer,     \* the answer in the response buffer
    outcome     \* outcome[c]: "none" until c's turn has decided it

vars == <<turn, asked, answer, outcome>>

TypeOK ==
    /\ turn \in Callers \cup {NoCaller}
    /\ asked \in [Callers -> Questions \cup {NoAnswer}]
    /\ answer \in Questions \cup {NoAnswer}
    /\ outcome \in [Callers -> {"none", "NOERR"} \cup Failure]

Init ==
    /\ turn = NoCaller
    /\ asked = [c \in Callers |-> NoAnswer]
    /\ answer = NoAnswer
    /\ outcome = [c \in Callers |-> "none"]

Ask(c, q) ==
    /\ turn # c
    /\ asked' = [asked EXCEPT ![c] = q]
    /\ outcome' = [outcome EXCEPT ![c] = "none"]
    /\ UNCHANGED <<turn, answer>>

Take(c) ==
    /\ turn = NoCaller
    /\ outcome[c] = "none"
    /\ turn' = c
    /\ answer' = NoAnswer
    /\ UNCHANGED <<asked, outcome>>

\* The slave answered, or refused with an exception frame.
Succeed(c) ==
    /\ turn = c
    /\ outcome[c] = "none"
    /\ answer' \in {NoAnswer, asked[c]}
    /\ outcome' = [outcome EXCEPT ![c] = "NOERR"]
    /\ UNCHANGED <<turn, asked>>

Fail(c) ==
    /\ turn = c
    /\ outcome[c] = "none"
    /\ \E e \in Failure : outcome' = [outcome EXCEPT ![c] = e]
    /\ UNCHANGED <<turn, asked, answer>>

Leave(c) ==
    /\ turn = c
    /\ outcome[c] # "none"
    /\ turn' = NoCaller
    /\ UNCHANGED <<asked, answer, outcome>>

Next ==
    \E c \in Callers :
      \/ \E q \in Questions : Ask(c, q)
      \/ Take(c) \/ Succeed(c) \/ Fail(c) \/ Leave(c)

Spec == Init /\ [][Next]_vars
=============================================================================
