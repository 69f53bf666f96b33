---------------------------------- MODULE TsId ----------------------------------
(***************************************************************************)
(* The sort key of the messages table (InsertMessage): the time of a       *)
(* message formatted with time.RFC3339Nano, which drops the zeros at the   *)
(* end of the fraction, then "Z", then "#" and the id of the message.      *)
(*                                                                         *)
(* A time is a sequence of digits: the first stands for everything that is *)
(* formatted with a fixed width, down to the seconds, the rest for the     *)
(* fraction.  "Z" sorts after "." and after every digit.                   *)
(***************************************************************************)
EXTENDS Naturals, Sequences

CONSTANTS
    Base,       \* digits are 0 .. Base - 1
    Digits      \* digits of the fraction (9 in the code)

ASSUME TsIdAssumption == Base \in Nat /\ Base > 1 /\ Digits \in Nat

Times == [1 .. Digits + 1 -> 0 .. Base - 1]

\* Sequences compared element by element, as DynamoDB compares strings.
LexLess(a, b) ==
    \E p \in 1 .. Len(b) :
        /\ p <= Len(a)
        /\ \A q \in 1 .. p - 1 : a[q] = b[q]
        /\ a[p] < b[p]

\* The places of a time that its text keeps.
Kept(t) == CHOOSE n \in 1 .. Len(t) :
              /\ \A p \in n + 1 .. Len(t) : t[p] = 0
              /\ n = 1 \/ t[n] # 0

\* The digits of RFC3339Nano.
Text(t) == SubSeq(t, 1, Kept(t))

\* What ts_id says of the time, "Z" included.
Key(t) == Append(Text(t), Base)

\* The order of the messages of a room: by time text, then by id.
TsIdLess(m, n) ==
    \/ LexLess(Key(m.at), Key(n.at))
    \/ m.at = n.at /\ m.id < n.id

\* The one way in which time and key disagree: the earlier time ends where the
\* later one goes on, as in 5.1Z and 5.123Z.
CutShort(earlier, later) ==
    /\ Kept(earlier) < Kept(later)
    /\ Text(earlier) = SubSeq(later, 1, Kept(earlier))
================================================================================
