------------------------------- MODULE SuiteC -------------------------------
(***************************************************************************)
(* The count-expiry exercise of the conformance harness: five mock keys in *)
(* memory, driven over their thresholds one after the other.               *)
(***************************************************************************)
EXTENDS Naturals, FiniteSets

suiteCThresholds == [i \in 0 .. 4 |-> CASE i = 0 -> 3 [] i = 1 -> 6 [] i = 2 -> 9
                                       [] i = 3 -> 12 [] i = 4 -> 365]

suiteCFloor == 2

MockKeys == [i \in 0 .. 4 |-> [usage |-> 0, active |-> TRUE]]

ActiveMocks(keys) == Cardinality({i \in 0 .. 4 : keys[i].active})

Crossed(key, i) == key.active /\ key.usage >= suiteCThresholds[i]

\* One use of the key at index i.
UseMock(keys, i) ==
    LET used == [keys EXCEPT ![i].usage = @ + 1]
    IN IF ~keys[i].active THEN keys
       ELSE IF Crossed(used[i], i) /\ ActiveMocks(keys) > suiteCFloor
            THEN [used EXCEPT ![i].active = FALSE]
            ELSE used

\* record(i, 4): the keys after it, and whether a swap is asked for.
RecordMock(keys, i) == UseMock(UseMock(keys, i), 4)

SwapAsked(keys, i) ==
    \E j \in {i, 4} : keys[j].active /\ keys[j].usage + 1 >= suiteCThresholds[j]

\* The keys after n uses of the pair i and 4.
Driven(keys, i, n) ==
    LET after[m \in 0 .. n] == IF m = 0 THEN keys ELSE RecordMock(after[m - 1], i)
    IN after[n]

\* One phase of the exercise: key i is driven to its threshold, a swap is
\* asked for there and not before, and then the key is active as said.
Phase(before, after, i, active) ==
    /\ \A use \in 1 .. suiteCThresholds[i] :
          SwapAsked(Driven(before, i, use - 1), i) <=> use = suiteCThresholds[i]
    /\ after[i].active = active

\* Three keys expire; the fourth is held at the floor.
runSuiteCScratch ==
    \E k0 \in {Driven(MockKeys, 0, suiteCThresholds[0])} :
    \E k1 \in {Driven(k0, 1, suiteCThresholds[1])} :
    \E k2 \in {Driven(k1, 2, suiteCThresholds[2])} :
    \E k3 \in {Driven(k2, 3, suiteCThresholds[3])} :
        /\ Phase(MockKeys, k0, 0, FALSE)
        /\ Phase(k0, k1, 1, FALSE)
        /\ Phase(k1, k2, 2, FALSE)
        /\ ActiveMocks(k2) = suiteCFloor
        /\ Phase(k2, k3, 3, TRUE)
        /\ ActiveMocks(k3) = suiteCFloor

=============================================================================
