--------------------------- MODULE ConnectionLife ---------------------------
(***************************************************************************)
(* What a multi-reactor server promises of every connection: it is         *)
(* accepted under a descriptor number nobody else holds, served by one     *)
(* object, and released once that has ended, when the number is free and   *)
(* the object gone.  Which loops and locks are needed is not visible here. *)
(*                                                                         *)
(* A server that closes a descriptor before it has released the connection *)
(* may be given the number again too early.  Such a number is shared from  *)
(* then on: nothing is promised of the connections that have it, and       *)
(* everything of the others, until the server fails altogether.            *)
(***************************************************************************)
EXTENDS Naturals, TLAPS

CONSTANTS Conns, Numbers

VARIABLES
  stage,   \* stage[c]: how far connection c is in its life
  number,  \* number[c]: its descriptor number, 0 before accept()
  shared,  \* numbers accept() returned before they had been released
  failed   \* the server has used memory that it had given back

lifeVars == <<stage, number, shared, failed>>

Stages ==
  {"away", "waiting", "accepted", "served", "deaf", "ending", "over", "lost"}

LifeInit ==
  /\ stage = [c \in Conns |-> "away"]
  /\ number = [c \in Conns |-> 0]
  /\ shared = {}
  /\ failed = FALSE

Holds(c, n) ==
  /\ stage[c] \in {"accepted", "served", "deaf", "ending"}
  /\ number[c] = n

Move(c, from, to) ==
  /\ stage[c] = from
  /\ stage' = [stage EXCEPT ![c] = to]
  /\ UNCHANGED failed

Arrive(c) == Move(c, "away", "waiting") /\ UNCHANGED <<number, shared>>

Accept(c) ==
  /\ Move(c, "waiting", "accepted")
  /\ \E n \in Numbers :
       /\ \A d \in Conns : ~Holds(d, n)
       /\ number' = [number EXCEPT ![c] = n]
  /\ UNCHANGED shared

(* The number has been closed by a connection that is ending, or is shared *)
(* already; nobody else holds it.                                          *)
AcceptEarly(c) ==
  /\ Move(c, "waiting", "accepted")
  /\ \E n \in Numbers :
       /\ \A d \in Conns : Holds(d, n) => stage[d] = "ending" \/ n \in shared
       /\ (\E d \in Conns : Holds(d, n)) \/ n \in shared
       /\ number' = [number EXCEPT ![c] = n]
       /\ shared' = shared \cup {n}

Serve(c) == Move(c, "accepted", "served") /\ UNCHANGED <<number, shared>>

(* epoll_ctl refuses the descriptor, and the server only prints an error.  *)
Deafen(c) == Move(c, "accepted", "deaf") /\ UNCHANGED <<number, shared>>

End(c) == Move(c, "served", "ending") /\ UNCHANGED <<number, shared>>

Release(c) == Move(c, "ending", "over") /\ UNCHANGED <<number, shared>>

(* Connections whose numbers are shared get in each other's way.           *)
Confuse ==
  /\ stage' \in [Conns -> Stages]
  /\ \A c \in Conns : number[c] \notin shared => stage'[c] = stage[c]
  /\ UNCHANGED <<number, shared, failed>>

(* ... until one of them brings the server down: from here on anything may *)
(* happen.                                                                 *)
Fail == (failed \/ shared # {}) /\ failed' = TRUE

LifeNext ==
  \/ \E c \in Conns :
       \/ Arrive(c) \/ Accept(c) \/ AcceptEarly(c)
       \/ Serve(c) \/ Deafen(c) \/ End(c) \/ Release(c)
  \/ Confuse
  \/ Fail

LifeSpec == LifeInit /\ [][LifeNext]_lifeVars

----------------------------------------------------------------------------
(* The stages, numbers and flags of a server that has not failed.          *)
LifeTypeOK ==
  ~failed => /\ stage \in [Conns -> Stages]
             /\ number \in [Conns -> Numbers \cup {0}]
             /\ shared \subseteq Numbers

(* A number denotes one connection at a time, unless it is shared.         *)
NumbersAreUnique ==
  ~failed =>
    \A c, d \in Conns : \A n \in Numbers \ shared :
      Holds(c, n) /\ Holds(d, n) => c = d

(* Each number is held by a connection that nobody is ending, or shared by *)
(* one that is not over.                                                   *)
Full ==
  \A n \in Numbers : \E c \in Conns :
    \/ Holds(c, n) /\ stage[c] \in {"served", "deaf"}
    \/ number[c] = n /\ n \in shared /\ stage[c] # "over"

(* An accepted connection gets its object, one that ends is released, and  *)
(* one that waits is accepted, unless all numbers are held for good.       *)
LifeGoesOn ==
  \A c \in Conns :
    /\ stage[c] = "accepted" ~> stage[c] # "accepted" \/ failed
    /\ stage[c] = "ending" ~>
         stage[c] = "over" \/ number[c] \in shared \/ failed
    /\ stage[c] = "waiting" ~> stage[c] # "waiting" \/ []Full \/ failed

----------------------------------------------------------------------------
(* The stages and numbers are what they are meant to be.                   *)
LEMMA LifeTypeStep == LifeTypeOK /\ [LifeNext]_lifeVars => LifeTypeOK'
<1> SUFFICES ASSUME LifeTypeOK, [LifeNext]_lifeVars
             PROVE  LifeTypeOK'
  OBVIOUS
<1> USE DEF LifeTypeOK, Move, Stages
<1>1. ASSUME NEW c \in Conns, Accept(c) \/ AcceptEarly(c)
      PROVE  LifeTypeOK'
  BY <1>1 DEF Accept, AcceptEarly
<1>2. ASSUME NEW c \in Conns,
             Arrive(c) \/ Serve(c) \/ Deafen(c) \/ End(c) \/ Release(c)
      PROVE  LifeTypeOK'
  BY <1>2 DEF Arrive, Serve, Deafen, End, Release
<1>3. CASE Confuse
  BY <1>3 DEF Confuse
<1>4. CASE Fail
  BY <1>4 DEF Fail
<1>5. CASE UNCHANGED lifeVars
  BY <1>5 DEF lifeVars
<1>6. QED
  BY <1>1, <1>2, <1>3, <1>4, <1>5 DEF LifeNext

LEMMA LifeTypeCorrect == LifeSpec => []LifeTypeOK
<1>1. LifeInit => LifeTypeOK
  BY DEF LifeInit, LifeTypeOK, Stages
<1>2. QED
  BY <1>1, LifeTypeStep, PTL DEF LifeSpec

(* A number that is not shared gets a new holder at accept() only, when it *)
(* has none.                                                               *)
LEMMA UniqueStep ==
  LifeTypeOK /\ NumbersAreUnique /\ [LifeNext]_lifeVars => NumbersAreUnique'
<1> SUFFICES ASSUME LifeTypeOK, NumbersAreUnique, [LifeNext]_lifeVars, ~failed'
             PROVE  NumbersAreUnique'
  BY DEF NumbersAreUnique
<1> USE DEF LifeTypeOK, NumbersAreUnique, Holds, Move
<1>1. ASSUME NEW c \in Conns, Accept(c)
      PROVE  NumbersAreUnique'
  BY <1>1 DEF Accept
<1>2. ASSUME NEW c \in Conns, AcceptEarly(c)
      PROVE  NumbersAreUnique'
  BY <1>2 DEF AcceptEarly
<1>3. ASSUME NEW c \in Conns,
             Arrive(c) \/ Serve(c) \/ Deafen(c) \/ End(c) \/ Release(c)
      PROVE  NumbersAreUnique'
  <2>1. UNCHANGED <<number, shared, failed>>
    BY <1>3 DEF Arrive, Serve, Deafen, End, Release
  <2>2. \A d \in Conns : \A n \in Numbers : Holds(d, n)' => Holds(d, n)
    BY <1>3, <2>1 DEF Arrive, Serve, Deafen, End, Release
  <2>3. QED
    BY <2>1, <2>2
<1>4. CASE Confuse
  BY <1>4 DEF Confuse
<1>5. CASE UNCHANGED lifeVars
  BY <1>5 DEF lifeVars
<1>6. QED
  BY <1>1, <1>2, <1>3, <1>4, <1>5 DEF LifeNext, Fail

(* A descriptor number denotes one connection at a time, as long as accept *)
(* does not return it before it has been released.                         *)
THEOREM UniqueCorrect == LifeSpec => []NumbersAreUnique
<1>1. LifeInit => NumbersAreUnique
  BY DEF LifeInit, NumbersAreUnique, Holds
<1>2. QED
  BY <1>1, UniqueStep, LifeTypeCorrect, PTL DEF LifeSpec
=============================================================================
