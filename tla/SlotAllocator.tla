--------------------------- MODULE SlotAllocator ---------------------------
(***************************************************************************)
(* What AsyncClient promises about connections, without saying how.  A     *)
(* request holds at most one slot, of one origin.  The allocator knows     *)
(* only how many slots of each origin are used, never by whom: a slot that *)
(* is not given back by its holder is lost.  A request answers once, and   *)
(* has then given back its slot.                                           *)
(***************************************************************************)
EXTENDS Integers

CONSTANTS
  Clients,   \* calls of AsyncClient::request
  Keys,      \* pool keys
  NoKey,
  Limit,     \* max_connections_per_origin, 0 = unlimited
  NoAnswer, Answers

VARIABLES
  holds,     \* the key of the slot each client holds, or NoKey
  used,      \* slots in use, as the allocator counts them
  answer

Init == /\ holds = [c \in Clients |-> NoKey]
        /\ used = [k \in Keys |-> 0]
        /\ answer = [c \in Clients |-> NoAnswer]

(* Lease a slot the count has room for.                                    *)
Take(c, k) ==
  /\ holds[c] = NoKey /\ answer[c] = NoAnswer
  /\ Limit # 0 => used[k] < Limit
  /\ holds' = [holds EXCEPT ![c] = k]
  /\ used' = [used EXCEPT ![k] = @ + 1]
  /\ UNCHANGED answer

(* c has its slot back where it came from, or had none.                    *)
GivenBack(c) ==
  /\ holds' = [holds EXCEPT ![c] = NoKey]
  /\ used' = [k \in Keys |-> IF holds[c] = k THEN used[k] - 1 ELSE used[k]]

(* Give the slot back, to retry or to follow a redirect.                   *)
Give(c) == holds[c] # NoKey /\ GivenBack(c) /\ UNCHANGED answer

(* Answer, giving back the slot if there is one.                           *)
Answer(c, a) ==
  /\ answer[c] = NoAnswer
  /\ GivenBack(c)
  /\ answer' = [answer EXCEPT ![c] = a]

Next == \E c \in Clients : \/ \E k \in Keys : Take(c, k)
                           \/ Give(c)
                           \/ \E a \in Answers : Answer(c, a)

Spec == Init /\ [][Next]_<<holds, used, answer>>
=============================================================================
