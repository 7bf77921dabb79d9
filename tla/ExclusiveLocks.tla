--------------------------- MODULE ExclusiveLocks ---------------------------
(* What a table of locks promises.  Only a token that holds no key is given *)
(* one.  Where acquisitions do not overlap, a key that is held stays with   *)
(* its holder alone until it is given back or times out.  Where they do, a  *)
(* token may come to a key that is held: one of the two is the holder, the  *)
(* other stays behind it and follows when the holder goes.                  *)
CONSTANTS Key, Token, None

VARIABLES
  holder,   \* the token that holds the key
  behind,   \* tokens that were given the key besides
  overlap   \* whether acquisitions may overlap

Init ==
  /\ holder = [k \in Key |-> None]
  /\ behind = [k \in Key |-> {}]
  /\ overlap \in BOOLEAN

Unused(t) == \A k \in Key : holder[k] # t /\ t \notin behind[k]

Acquire(k, t) ==
  /\ holder[k] = None /\ Unused(t)
  /\ holder' = [holder EXCEPT ![k] = t]
  /\ UNCHANGED <<behind, overlap>>

Join(k, t) ==
  /\ overlap
  /\ holder[k] # None /\ Unused(t)
  /\ \E one \in {holder[k], t} :
       /\ holder' = [holder EXCEPT ![k] = one]
       /\ behind' = [behind EXCEPT ![k] = (@ \cup {holder[k], t}) \ {one}]
  /\ UNCHANGED overlap

\* Locks that are returned, or that time out together.
GiveBack(tokens) ==
  /\ holder' \in [Key -> Token \cup {None}]
  /\ \A k \in Key :
       holder'[k] \in IF holder[k] \notin tokens THEN {holder[k]}
                     ELSE IF behind[k] \subseteq tokens THEN {None}
                     ELSE behind[k] \ tokens
  /\ behind' = [k \in Key |-> behind[k] \ (tokens \cup {holder'[k]})]
  /\ UNCHANGED overlap

Next ==
  \/ \E k \in Key, t \in Token : Acquire(k, t) \/ Join(k, t)
  \/ \E tokens \in SUBSET Token : GiveBack(tokens)

Spec == Init /\ [][Next]_<<holder, behind, overlap>>
=============================================================================
