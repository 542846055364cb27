------------------------------ MODULE MsgUtil ------------------------------
(***************************************************************************)
(* common/msg_util.cc: the message ids of one thread.  An id is a sequence *)
(* of digits; the limit is a string of nines, of which only the length     *)
(* matters.                                                                *)
(***************************************************************************)
EXTENDS Naturals, Sequences

CONSTANTS
    Base,        \* 10 in the code
    IdLength     \* g_msg_id_length

ASSUME IdAssumption == Base \in Nat \ {0, 1} /\ IdLength \in Nat \ {0}

Digits == 0..(Base - 1)
Nines(id) == \A i \in DOMAIN id : id[i] = Base - 1

\* An id is made anew when there is none or the last one is the limit.
Refills(id, limit) == id = <<>> \/ (Len(id) = limit /\ Nines(id))

\* What reading g_msg_id_length random bytes may give.
Random == [1..IdLength -> Digits]

\* Mutant of NextId: the digits behind the one incremented stay.
NextIdNoCarry(id) ==
    IF Nines(id) THEN id
    ELSE LET i == CHOOSE j \in DOMAIN id :
                      id[j] # Base - 1 /\ \A k \in (j + 1)..Len(id) : id[k] = Base - 1
         IN  [id EXCEPT ![i] = @ + 1]

\* The last digit that is not a nine is incremented and those behind it become
\* zeros; an id of nines stays as it is.
NextId(id) ==
    IF Nines(id) THEN id
    ELSE LET i == CHOOSE j \in DOMAIN id :
                      id[j] # Base - 1 /\ \A k \in (j + 1)..Len(id) : id[k] = Base - 1
         IN  [j \in DOMAIN id |->
                 IF j < i THEN id[j] ELSE IF j = i THEN id[j] + 1 ELSE 0]
-----------------------------------------------------------------------------
(* Properties *)

\* The number that an id reads as, by definition of the notation.
ValueOf(id) ==
    LET value[n \in 0..Len(id)] == IF n = 0 THEN 0 ELSE Base * value[n - 1] + id[n]
    IN  value[Len(id)]
=============================================================================
