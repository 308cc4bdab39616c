-------------------------- MODULE MCModbusExchange --------------------------
(***************************************************************************)
(* Instances of ModbusExchange for TLC.                                    *)
(***************************************************************************)
EXTENDS ModbusExchange, TLC

Asked(f, index, count, values) ==
    [function |-> f, index |-> index, count |-> count, values |-> values]

Words(n) == [k \in 1 .. n |-> (4660 * k + 17) % 65536]
CoilBytes(n) == [k \in 1 .. n |-> (91 * k + 5) % 256]

\* Reads of one value, of a few and of as many as a reply holds, at the limits of the
\* register space; and those just past each limit.
Reads ==
    {Asked(f, 65530, count, <<>>) : f \in {1, 3}, count \in {0, 1, 6, 7}}
    \cup {Asked(f, 256, 9, <<>>) : f \in {2, 4}}
    \cup {Asked(1, 63536, count, <<>>) : count \in {2000, 2001}}
    \cup {Asked(4, 65411, count, <<>>) : count \in {125, 126}}

Writes ==
    {Asked(5, 65535, 1, <<v>>) : v \in {0, 7}}
    \cup {Asked(6, 258, 1, <<4097>>), Asked(22, 300, 1, <<62199, 37>>)}
    \cup {Asked(15, 3, count, CoilBytes(2)) : count \in {0, 5, 8, 11}}
    \cup {Asked(15, 63568, count, CoilBytes(247)) : count \in {1968, 1969}}
    \cup {Asked(16, 65534, count, Words(3)) : count \in {2, 3}}
    \cup {Asked(16, 5, count, Words(124)) : count \in {123, 124}}
    \cup {Asked(7, 5, 1, <<1>>)}

AllRequests == Reads \cup Writes
=============================================================================
