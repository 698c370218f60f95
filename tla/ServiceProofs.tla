---------------------------- MODULE ServiceProofs ----------------------------
(***************************************************************************)
(* Theorems about what serves every desk, for any number of clients,       *)
(* series, requests, jobs, parts and vehicles.                             *)
(*                                                                         *)
(* Document numbers: they are unique, and a series that is only numbered   *)
(* inside transactions is continuous, that is, Sequence implements         *)
(* GaplessSeries.  Background work and one-time codes (Housekeeping).  The *)
(* catalogue and the import into it (StagingImport).                       *)
(***************************************************************************)
EXTENDS Sequence, Housekeeping, StagingImport, Sums, TLAPS

-----------------------------------------------------------------------------
(* One-time codes.  A request may be about to store a code of a kind.      *)
Creating(k) == {r \in Requests : asking[r].op = "create" /\ asking[r].kind = k}
Coming == {r \in Requests : asking[r].op \in {"create", "resend"}}

Asking ==
    {Quiet, [op |-> "resend"], [op |-> "confirm"]}
    \cup [op : {"create"}, kind : Kinds] \cup [op : {"mark"}, code : Nat]

(* A request marks a code that was stored; and every code, stored or about *)
(* to be, was asked for.                                                   *)
CodesOK ==
    /\ codes \in Seq(Code)
    /\ verified \in BOOLEAN
    /\ asking \in [Requests -> Asking]
    /\ \A r \in Requests : asking[r].op = "mark" => asking[r].code \in 1..Len(codes)
    /\ events \in Nat
    /\ Len(codes) + Cardinality(Coming) <= events
    /\ events <= MaxEvents

(* A request that is about to store a code spent the older ones after its  *)
(* own previous code: each counts for one, whether stored or coming.       *)
LiveOrComing ==
    \A k \in Kinds :
        Cardinality(Usable(k)) + Cardinality(Creating(k)) <= Cardinality(Requests)

JobsOK ==
    /\ mode \in {"down", "workers", "legacy"}
    /\ schedule \in Seq(JobKinds)
    /\ repeats \subseteq JobKinds
    /\ job \in [JobKinds -> Job]

(* A worker that is about to report a success did the work.                *)
ReportsAreTrue ==
    \A j \in JobKinds : job[j].outcome = "done" => job[j].done

HousekeepingInv ==
    CodesOK /\ LiveOrComing /\ AcceptedIsSpent /\ JobsOK /\ ReportsAreTrue /\ CompletedWasDone

CodesInv == CodesOK /\ LiveOrComing /\ AcceptedIsSpent

(* A set that changes in one member counts for it.                         *)
LEMMA OneMoved ==
    ASSUME NEW S, IsFiniteSet(S), NEW s \in SUBSET S, NEW t \in SUBSET S, NEW x \in S,
           s \ {x} = t \ {x}
    PROVE  Cardinality(t) =
             Cardinality(s) - (IF x \in s THEN 1 ELSE 0) + (IF x \in t THEN 1 ELSE 0)
<1> DEFINE rest == s \ {x}
<1>1. IsFiniteSet(rest) /\ Cardinality(rest) \in Nat
  BY FS_Subset, FS_CardinalityType
<1>2. Cardinality(rest \cup {x}) = Cardinality(rest) + 1
  BY <1>1, FS_AddElement
<1>3. Cardinality(s) = Cardinality(rest) + (IF x \in s THEN 1 ELSE 0)
  <2>1. CASE x \in s
    <3>1. s = rest \cup {x}
      BY <2>1
    <3> HIDE DEF rest
    <3> QED
      BY <1>2, <2>1, <3>1
  <2>2. CASE x \notin s
    <3>1. s = rest
      BY <2>2
    <3> HIDE DEF rest
    <3> QED
      BY <1>1, <2>2, <3>1
  <2> QED
    BY <2>1, <2>2
<1>4. Cardinality(t) = Cardinality(rest) + (IF x \in t THEN 1 ELSE 0)
  <2>1. CASE x \in t
    <3>1. t = rest \cup {x}
      BY <2>1
    <3> HIDE DEF rest
    <3> QED
      BY <1>2, <2>1, <3>1
  <2>2. CASE x \notin t
    <3>1. t = rest
      BY <2>2
    <3> HIDE DEF rest
    <3> QED
      BY <1>1, <2>2, <3>1
  <2> QED
    BY <2>1, <2>2
<1> HIDE DEF rest
<1> QED
  BY <1>1, <1>3, <1>4

Stores(q, k) == IF q.op = "create" /\ q.kind = k THEN 1 ELSE 0
Comes(q) == IF q.op \in {"create", "resend"} THEN 1 ELSE 0

(* What is counted is finite.                                              *)
LEMMA CodesCounted ==
    ASSUME CodesOK
    PROVE  /\ IsFiniteSet(Requests) /\ Cardinality(Requests) \in Nat
           /\ Cardinality(Coming) \in Nat
           /\ Len(codes) \in Nat /\ DOMAIN codes = 1..Len(codes)
           /\ \A k \in Kinds :
                 /\ IsFiniteSet(Usable(k)) /\ Cardinality(Usable(k)) \in Nat
                 /\ Cardinality(Creating(k)) \in Nat
                 /\ Cardinality(Creating(k)) <= Cardinality(Requests)
<1>1. IsFiniteSet(Requests)
  BY CodesAssumption
<1>2. Len(codes) \in Nat /\ DOMAIN codes = 1..Len(codes)
  BY DEF CodesOK
<1>3. Coming \in SUBSET Requests /\ \A k : Creating(k) \in SUBSET Requests
  BY DEF Coming, Creating
<1>4. \A k : Usable(k) \in SUBSET (1..Len(codes))
  BY <1>2 DEF Usable
<1>5. IsFiniteSet(1..Len(codes))
  BY <1>2, FS_Interval
<1> QED
  BY <1>1, <1>2, <1>3, <1>4, <1>5, FS_Subset, FS_CardinalityType

LEMMA AskingTurns ==
    ASSUME CodesOK, NEW r \in Requests, NEW q \in Asking,
           asking' = [asking EXCEPT ![r] = q],
           q.op = "mark" => q.code \in 1..Len(codes'),
           Len(codes) <= Len(codes'), Len(codes') \in Nat
    PROVE  /\ asking' \in [Requests -> Asking]
           /\ \A d \in Requests : asking'[d].op = "mark" => asking'[d].code \in 1..Len(codes')
           /\ Cardinality(Coming') = Cardinality(Coming) - Comes(asking[r]) + Comes(q)
           /\ \A k \in Kinds :
                 Cardinality(Creating(k)') =
                   Cardinality(Creating(k)) - Stores(asking[r], k) + Stores(q, k)
<1>1. asking \in [Requests -> Asking] /\ asking' \in [Requests -> Asking]
  BY DEF CodesOK
<1>2. \A d \in Requests : asking'[d].op = "mark" => asking'[d].code \in 1..Len(codes')
  <2> SUFFICES ASSUME NEW d \in Requests, asking'[d].op = "mark"
               PROVE  asking'[d].code \in 1..Len(codes')
    OBVIOUS
  <2>1. CASE d = r
    BY <1>1, <2>1
  <2>2. CASE d # r
    <3>1. asking'[d] = asking[d]
      BY <1>1, <2>2
    <3>2. asking[d].code \in 1..Len(codes) /\ Len(codes) \in Nat
      BY <3>1 DEF CodesOK
    <3> QED
      BY <3>1, <3>2
  <2> QED
    BY <2>1, <2>2
<1>3. IsFiniteSet(Requests)
  BY CodesAssumption
<1>4. Cardinality(Coming') = Cardinality(Coming) - Comes(asking[r]) + Comes(q)
  <2>1. /\ Coming \in SUBSET Requests /\ Coming' \in SUBSET Requests
        /\ Coming \ {r} = Coming' \ {r}
        /\ r \in Coming <=> asking[r].op \in {"create", "resend"}
        /\ r \in Coming' <=> q.op \in {"create", "resend"}
    BY <1>1 DEF Coming
  <2> QED
    BY <1>3, <2>1, OneMoved DEF Comes
<1>5. ASSUME NEW k \in Kinds
      PROVE  Cardinality(Creating(k)') =
               Cardinality(Creating(k)) - Stores(asking[r], k) + Stores(q, k)
  <2>1. /\ Creating(k) \in SUBSET Requests /\ Creating(k)' \in SUBSET Requests
        /\ Creating(k) \ {r} = Creating(k)' \ {r}
        /\ r \in Creating(k) <=> asking[r].op = "create" /\ asking[r].kind = k
        /\ r \in Creating(k)' <=> q.op = "create" /\ q.kind = k
    BY <1>1 DEF Creating
  <2> QED
    BY <1>3, <2>1, OneMoved DEF Stores
<1> QED
  BY <1>1, <1>2, <1>4, <1>5

(* What may befall codes that are stored: they expire, are spent, marked   *)
(* or deleted, and an e-mail's is accepted only as it is spent.            *)
Aged ==
    /\ codes' \in Seq(Code)
    /\ Len(codes') = Len(codes)
    /\ \A i \in 1..Len(codes) :
          /\ codes'[i].kind = codes[i].kind
          /\ codes'[i].status = "unused" =>
                /\ codes[i].status = "unused"
                /\ codes[i].kind # "PHONE_OTP" /\ codes'[i].accepted => codes[i].accepted

LEMMA AgedCodes ==
    ASSUME CodesInv, Aged
    PROVE  /\ AcceptedIsSpent'
           /\ \A k \in Kinds : /\ Cardinality(Usable(k)') \in Nat
                               /\ Cardinality(Usable(k)') <= Cardinality(Usable(k))
<1>1. /\ Len(codes) \in Nat /\ DOMAIN codes = 1..Len(codes)
      /\ DOMAIN codes' = 1..Len(codes)
  BY DEF CodesInv, CodesOK, Aged
<1>2. AcceptedIsSpent'
  BY <1>1 DEF CodesInv, AcceptedIsSpent, Aged
<1>3. ASSUME NEW k \in Kinds
      PROVE  /\ Cardinality(Usable(k)') \in Nat
             /\ Cardinality(Usable(k)') <= Cardinality(Usable(k))
  <2>1. Usable(k)' \subseteq Usable(k)
    BY <1>1 DEF Usable, Aged
  <2>2. IsFiniteSet(Usable(k))
    BY CodesCounted DEF CodesInv
  <2> QED
    BY <2>1, <2>2, FS_Subset, FS_CardinalityType
<1> QED
  BY <1>2, <1>3

(* Codes that stay, or age, while one request goes on.                     *)
LEMMA AgedWhileAsked ==
    ASSUME CodesInv, Aged, verified' \in BOOLEAN, NEW r \in Requests, NEW q \in Asking,
           asking' = [asking EXCEPT ![r] = q],
           q.op = "mark" => q.code \in 1..Len(codes),
           events' \in Nat, events' <= MaxEvents, events <= events',
           Comes(q) <= Comes(asking[r]) + (events' - events),
           \A k \in Kinds : Stores(q, k) <= Stores(asking[r], k)
    PROVE  CodesInv'
<1>1. /\ codes' \in Seq(Code) /\ Len(codes') = Len(codes) /\ Len(codes) \in Nat
      /\ events \in Nat /\ Cardinality(Coming) \in Nat
      /\ Len(codes) + Cardinality(Coming) <= events
  BY CodesCounted DEF Aged, CodesInv, CodesOK
<1>2. /\ asking' \in [Requests -> Asking]
      /\ \A d \in Requests : asking'[d].op = "mark" => asking'[d].code \in 1..Len(codes')
      /\ Cardinality(Coming') = Cardinality(Coming) - Comes(asking[r]) + Comes(q)
      /\ \A k \in Kinds :
            Cardinality(Creating(k)') =
              Cardinality(Creating(k)) - Stores(asking[r], k) + Stores(q, k)
  <2>1. /\ CodesOK
        /\ q.op = "mark" => q.code \in 1..Len(codes')
        /\ Len(codes) <= Len(codes') /\ Len(codes') \in Nat
    BY <1>1 DEF CodesInv
  <2> QED
    BY <2>1, AskingTurns
<1>3. Comes(q) \in Nat /\ Comes(asking[r]) \in Nat
      /\ \A k : Stores(q, k) \in Nat /\ Stores(asking[r], k) \in Nat
  BY DEF Comes, Stores
<1>4. CodesOK'
  <2>1. Len(codes') + Cardinality(Coming') <= events'
    BY <1>1, <1>2, <1>3
  <2> QED
    BY <1>1, <1>2, <2>1 DEF CodesOK
<1>5. LiveOrComing'
  <2> SUFFICES ASSUME NEW k \in Kinds
               PROVE  Cardinality(Usable(k)') + Cardinality(Creating(k)')
                        <= Cardinality(Requests)
    BY DEF LiveOrComing
  <2>1. /\ Cardinality(Usable(k)') \in Nat
        /\ Cardinality(Usable(k)') <= Cardinality(Usable(k))
    BY AgedCodes
  <2>2. /\ Cardinality(Usable(k)) \in Nat /\ Cardinality(Creating(k)) \in Nat
        /\ Cardinality(Requests) \in Nat
    BY CodesCounted DEF CodesInv
  <2>3. Cardinality(Usable(k)) + Cardinality(Creating(k)) <= Cardinality(Requests)
    BY DEF CodesInv, LiveOrComing
  <2>4. Cardinality(Creating(k)') <= Cardinality(Creating(k)) /\ Cardinality(Creating(k)') \in Int
    BY <1>2, <1>3, <2>2
  <2> QED
    BY <2>1, <2>2, <2>3, <2>4
<1>6. AcceptedIsSpent'
  BY AgedCodes
<1> QED
  BY <1>4, <1>5, <1>6 DEF CodesInv

(* Nothing but the codes ages.                                             *)
LEMMA AgedAlone ==
    ASSUME CodesInv, Aged, UNCHANGED <<verified, asking, events>>
    PROVE  CodesInv'
<1>1. /\ codes' \in Seq(Code) /\ Len(codes') = Len(codes)
  BY DEF Aged
<1>2. CodesOK'
  BY <1>1 DEF CodesInv, CodesOK, Coming
<1>3. LiveOrComing'
  <2> SUFFICES ASSUME NEW k \in Kinds
               PROVE  Cardinality(Usable(k)') + Cardinality(Creating(k)')
                        <= Cardinality(Requests)
    BY DEF LiveOrComing
  <2>1. Creating(k)' = Creating(k)
    BY DEF Creating
  <2>2. /\ Cardinality(Usable(k)') \in Nat
        /\ Cardinality(Usable(k)') <= Cardinality(Usable(k))
    BY AgedCodes
  <2>3. /\ Cardinality(Usable(k)) \in Nat /\ Cardinality(Creating(k)) \in Nat
        /\ Cardinality(Requests) \in Nat
    BY CodesCounted DEF CodesInv
  <2>4. Cardinality(Usable(k)) + Cardinality(Creating(k)) <= Cardinality(Requests)
    BY DEF CodesInv, LiveOrComing
  <2> QED
    BY <2>1, <2>2, <2>3, <2>4
<1> QED
  BY <1>2, <1>3, AgedCodes DEF CodesInv

LEMMA SpentCodes ==
    ASSUME CodesInv, NEW k \in Kinds, codes' = Spent(k)
    PROVE  Aged /\ Usable(k)' = {}
<1>1. /\ codes \in Seq(Code) /\ DOMAIN codes = 1..Len(codes) /\ Len(codes) \in Nat
      /\ \A i \in 1..Len(codes) : codes[i] \in Code
  BY DEF CodesInv, CodesOK
<1>2. \A i \in 1..Len(codes) :
         codes'[i] = IF codes[i].kind = k /\ codes[i].status = "unused"
                     THEN [codes[i] EXCEPT !.status = "used"] ELSE codes[i]
  BY <1>1 DEF Spent, Usable
<1>3. DOMAIN codes' = 1..Len(codes)
  BY <1>1 DEF Spent
<1>4. \A i \in 1..Len(codes) :
         /\ codes'[i] \in Code
         /\ codes'[i].kind = codes[i].kind /\ codes'[i].accepted = codes[i].accepted
         /\ codes'[i].status = IF codes[i].kind = k /\ codes[i].status = "unused"
                               THEN "used" ELSE codes[i].status
  BY <1>1, <1>2 DEF Code
<1>5. codes' \in [1..Len(codes) -> Code]
  <2>1. codes' = [i \in 1..Len(codes) |-> codes'[i]]
    BY <1>1 DEF Spent
  <2> QED
    BY <1>4, <2>1
<1>6. codes' \in Seq(Code) /\ Len(codes') = Len(codes)
  BY <1>1, <1>5
<1> QED
  BY <1>3, <1>4, <1>6 DEF Aged, Usable

-----------------------------------------------------------------------------
(* The steps of the requests about codes.                                  *)
(* A request spends the older codes and goes on to store one.              *)
LEMMA SpendsAndStores ==
    ASSUME CodesInv, NEW r \in Requests, NEW k \in Kinds, codes' = Spent(k),
           asking' = [asking EXCEPT ![r] = [op |-> "create", kind |-> k]],
           asking[r].op # "create", verified' = verified,
           \/ asking[r].op = "resend" /\ events' = events
           \/ events < MaxEvents /\ events' = events + 1
    PROVE  CodesInv'
<1> DEFINE q == [op |-> "create", kind |-> k]
<1>1. /\ asking' = [asking EXCEPT ![r] = q]
      /\ q \in Asking /\ q.op = "create" /\ q.kind = k
      /\ Comes(q) = 1 /\ Comes(asking[r]) \in {0, 1}
      /\ asking[r].op = "resend" => Comes(asking[r]) = 1
      /\ \A j : Stores(asking[r], j) = 0 /\ Stores(q, j) = IF j = k THEN 1 ELSE 0
  BY DEF Asking, Comes, Stores
<1> HIDE DEF q
<1>2. events' \in Nat /\ events' <= MaxEvents /\ 1 <= Comes(asking[r]) + (events' - events)
  BY <1>1, CodesAssumption DEF CodesInv, CodesOK
<1>3. Aged /\ Usable(k)' = {}
  BY SpentCodes
<1>4. /\ codes' \in Seq(Code) /\ Len(codes') = Len(codes) /\ Len(codes) \in Nat
      /\ events \in Nat /\ Cardinality(Coming) \in Nat
      /\ Len(codes) + Cardinality(Coming) <= events
  BY <1>3, CodesCounted DEF Aged, CodesInv, CodesOK
<1>5. /\ asking' \in [Requests -> Asking]
      /\ \A d \in Requests : asking'[d].op = "mark" => asking'[d].code \in 1..Len(codes')
      /\ Cardinality(Coming') = Cardinality(Coming) - Comes(asking[r]) + Comes(q)
      /\ \A j \in Kinds :
            Cardinality(Creating(j)') =
              Cardinality(Creating(j)) - Stores(asking[r], j) + Stores(q, j)
  <2>1. /\ CodesOK
        /\ q.op = "mark" => q.code \in 1..Len(codes')
        /\ Len(codes) <= Len(codes') /\ Len(codes') \in Nat
    BY <1>1, <1>4 DEF CodesInv
  <2> QED
    BY <1>1, <2>1, AskingTurns
<1>6. CodesOK'
  <2>1. verified' \in BOOLEAN
    BY DEF CodesInv, CodesOK
  <2>2. Len(codes') + Cardinality(Coming') <= events'
    BY <1>1, <1>2, <1>4, <1>5
  <2> QED
    BY <1>2, <1>4, <1>5, <2>1, <2>2 DEF CodesOK
<1>7. LiveOrComing'
  <2> SUFFICES ASSUME NEW j \in Kinds
               PROVE  Cardinality(Usable(j)') + Cardinality(Creating(j)')
                        <= Cardinality(Requests)
    BY DEF LiveOrComing
  <2>1. /\ Cardinality(Requests) \in Nat
        /\ Cardinality(Creating(j)') \in Nat
        /\ Cardinality(Creating(j)') <= Cardinality(Requests)
    <3>1. Creating(j)' \subseteq Requests
      BY DEF Creating
    <3> QED
      BY <3>1, CodesAssumption, FS_Subset, FS_CardinalityType
  <2>2. CASE j = k
    <3>1. Usable(j)' = {}
      BY <1>3, <2>2
    <3>2. Cardinality(Usable(j)') = 0
      BY <3>1, FS_EmptySet, Zenon
    <3> QED
      BY <2>1, <3>2
  <2>3. CASE j # k
    <3>1. Cardinality(Creating(j)') = Cardinality(Creating(j))
      <4>1. Cardinality(Creating(j)) \in Nat
        BY CodesCounted DEF CodesInv
      <4> QED
        BY <1>1, <1>5, <2>3, <4>1
    <3>2. /\ Cardinality(Usable(j)') \in Nat /\ Cardinality(Usable(j)) \in Nat
          /\ Cardinality(Usable(j)') <= Cardinality(Usable(j))
      BY <1>3, AgedCodes, CodesCounted DEF CodesInv
    <3>3. Cardinality(Usable(j)) + Cardinality(Creating(j)) <= Cardinality(Requests)
      BY DEF CodesInv, LiveOrComing
    <3> QED
      BY <2>1, <3>1, <3>2, <3>3
  <2> QED
    BY <2>2, <2>3
<1> QED
  BY <1>3, <1>6, <1>7, AgedCodes DEF CodesInv


LEMMA SendKeeps ==
    ASSUME CodesInv, NEW r \in Requests, NEW k \in Kinds, Send(r, k)
    PROVE  CodesInv'
<1>1. /\ codes' = Spent(k) /\ verified' = verified
      /\ asking' = [asking EXCEPT ![r] = [op |-> "create", kind |-> k]]
      /\ asking[r].op # "create"
      /\ events < MaxEvents /\ events' = events + 1
  BY DEF Send, BeginAsking, Event, Quiet
<1> QED
  BY <1>1, SpendsAndStores

LEMMA ResendKeeps ==
    ASSUME CodesInv, NEW r \in Requests, Resend(r)
    PROVE  CodesInv'
<1>1. /\ "EMAIL_VERIFY" \in Kinds
      /\ codes' = Spent("EMAIL_VERIFY") /\ verified' = verified
      /\ asking' = [asking EXCEPT ![r] = [op |-> "create", kind |-> "EMAIL_VERIFY"]]
      /\ asking[r].op = "resend" /\ asking[r].op # "create"
      /\ events' = events
  BY DEF Resend, ContinueAsking, Kinds
<1> QED
  BY <1>1, SpendsAndStores

LEMMA CreateCodeKeeps ==
    ASSUME CodesInv, NEW r \in Requests, CreateCode(r)
    PROVE  CodesInv'
<1> DEFINE k == asking[r].kind
           n == Len(codes) + 1
<1>1. /\ asking[r].op = "create" /\ k \in Kinds
      /\ codes' = Append(codes, NewCode(k)) /\ verified' = verified
      /\ asking' = [asking EXCEPT ![r] = Quiet] /\ events' = events
  BY DEF CreateCode, ContinueAsking, CodesInv, CodesOK, Asking, Quiet
<1>2. NewCode(k) \in Code /\ NewCode(k).kind = k /\ NewCode(k).status = "unused"
      /\ ~NewCode(k).accepted
  BY <1>1 DEF NewCode, Code
<1>3. /\ codes \in Seq(Code) /\ Len(codes) \in Nat /\ DOMAIN codes = 1..Len(codes)
      /\ codes' \in Seq(Code) /\ Len(codes') = n /\ DOMAIN codes' = 1..n
      /\ codes'[n] = NewCode(k)
      /\ \A i \in 1..Len(codes) : codes'[i] = codes[i]
  BY <1>1, <1>2 DEF CodesInv, CodesOK
<1>4. /\ Quiet \in Asking /\ Quiet.op # "mark" /\ Comes(Quiet) = 0
      /\ Comes(asking[r]) = 1
      /\ \A j : Stores(Quiet, j) = 0 /\ Stores(asking[r], j) = IF j = k THEN 1 ELSE 0
  BY <1>1 DEF Asking, Comes, Stores, Quiet
<1> HIDE DEF k
<1>5. /\ asking' \in [Requests -> Asking]
      /\ \A d \in Requests : asking'[d].op = "mark" => asking'[d].code \in 1..Len(codes')
      /\ Cardinality(Coming') = Cardinality(Coming) - Comes(asking[r]) + Comes(Quiet)
      /\ \A j \in Kinds :
            Cardinality(Creating(j)') =
              Cardinality(Creating(j)) - Stores(asking[r], j) + Stores(Quiet, j)
  <2>1. CodesOK /\ Len(codes) <= Len(codes') /\ Len(codes') \in Nat
    BY <1>3 DEF CodesInv
  <2> QED
    BY <1>1, <1>4, <2>1, AskingTurns
<1>6. CodesOK'
  <2>1. /\ verified \in BOOLEAN /\ events \in Nat /\ events <= MaxEvents
        /\ Len(codes) + Cardinality(Coming) <= events
        /\ Cardinality(Coming) \in Nat
    BY CodesCounted DEF CodesInv, CodesOK
  <2>2. Len(codes') + Cardinality(Coming') <= events'
    BY <1>1, <1>3, <1>4, <1>5, <2>1
  <2> QED
    BY <1>1, <1>3, <1>5, <2>1, <2>2 DEF CodesOK
<1>7. LiveOrComing'
  <2> SUFFICES ASSUME NEW j \in Kinds
               PROVE  Cardinality(Usable(j)') + Cardinality(Creating(j)')
                        <= Cardinality(Requests)
    BY DEF LiveOrComing
  <2>1. /\ IsFiniteSet(Usable(j)) /\ Cardinality(Usable(j)) \in Nat
        /\ Cardinality(Creating(j)) \in Nat /\ Cardinality(Requests) \in Nat
    BY CodesCounted DEF CodesInv
  <2>2. Cardinality(Usable(j)) + Cardinality(Creating(j)) <= Cardinality(Requests)
    BY DEF CodesInv, LiveOrComing
  <2>3. CASE j = k
    <3>1. Usable(j)' = Usable(j) \cup {n} /\ n \notin Usable(j)
      BY <1>2, <1>3, <2>3 DEF Usable
    <3> HIDE DEF n
    <3>2. Cardinality(Usable(j)') = Cardinality(Usable(j)) + 1
      BY <2>1, <3>1, FS_AddElement
    <3>3. Cardinality(Creating(j)') = Cardinality(Creating(j)) - 1
      BY <1>4, <1>5, <2>1, <2>3
    <3> QED
      BY <2>1, <2>2, <3>2, <3>3
  <2>4. CASE j # k
    <3>1. Usable(j)' = Usable(j)
      BY <1>2, <1>3, <2>4 DEF Usable
    <3>2. Cardinality(Creating(j)') = Cardinality(Creating(j))
      BY <1>4, <1>5, <2>1, <2>4
    <3> QED
      BY <2>2, <3>1, <3>2
  <2> QED
    BY <2>3, <2>4
<1>8. AcceptedIsSpent'
  <2> SUFFICES ASSUME NEW i \in 1..n, codes'[i].kind # "PHONE_OTP", codes'[i].accepted
               PROVE  codes'[i].status # "unused"
    BY <1>3 DEF AcceptedIsSpent
  <2>1. i \in 1..Len(codes)
    BY <1>2, <1>3
  <2> QED
    BY <1>3, <2>1 DEF CodesInv, AcceptedIsSpent
<1> QED
  BY <1>6, <1>7, <1>8 DEF CodesInv

(* Codes that stay as they are.                                            *)
LEMMA StillAged == ASSUME CodesInv, codes' = codes PROVE Aged
BY DEF Aged, CodesInv, CodesOK

(* A request begins, without touching a code.                              *)
LEMMA VerifyAnewKeeps ==
    ASSUME CodesInv, NEW r \in Requests, BeginVerifyAnew(r)
    PROVE  CodesInv'
<1> DEFINE q == [op |-> "resend"]
<1>1. /\ asking' = [asking EXCEPT ![r] = q] /\ asking[r] = Quiet
      /\ events < MaxEvents /\ events' = events + 1
      /\ verified' \in BOOLEAN /\ codes' = codes
  BY DEF BeginVerifyAnew, BeginAsking, Event
<1>2. /\ q \in Asking /\ q.op # "mark"
      /\ Comes(q) = 1 /\ Comes(asking[r]) = 0
      /\ \A k : Stores(q, k) = 0 /\ Stores(asking[r], k) = 0
  BY <1>1 DEF Asking, Comes, Stores, Quiet
<1> HIDE DEF q
<1>3. /\ events' \in Nat /\ events' <= MaxEvents /\ events <= events'
      /\ Comes(q) <= Comes(asking[r]) + (events' - events)
  BY <1>1, <1>2, CodesAssumption DEF CodesInv, CodesOK
<1>4. \A k \in Kinds : Stores(q, k) <= Stores(asking[r], k)
  BY <1>2
<1> QED
  BY <1>1, <1>2, <1>3, <1>4, StillAged, AgedWhileAsked

LEMMA CheckKeeps ==
    ASSUME CodesInv, NEW r \in Requests, NEW k \in Kinds, Check(r, k)
    PROVE  CodesInv'
<1>1. PICK i \in Usable(k) : BeginAsking(r, [op |-> "mark", code |-> i])
                             /\ UNCHANGED <<codes, verified>>
  BY DEF Check
<1> DEFINE q == [op |-> "mark", code |-> i]
<1>2. i \in 1..Len(codes) /\ i \in Nat
  BY DEF Usable, CodesInv, CodesOK
<1>3. /\ asking' = [asking EXCEPT ![r] = q] /\ asking[r] = Quiet
      /\ events < MaxEvents /\ events' = events + 1
      /\ verified' \in BOOLEAN /\ codes' = codes
  BY <1>1 DEF BeginAsking, Event, CodesInv, CodesOK
<1>4. /\ q \in Asking /\ q.code = i
      /\ Comes(q) = 0 /\ Comes(asking[r]) = 0
      /\ \A j : Stores(q, j) = 0 /\ Stores(asking[r], j) = 0
  BY <1>2, <1>3 DEF Asking, Comes, Stores, Quiet
<1> HIDE DEF q
<1>5. /\ events' \in Nat /\ events' <= MaxEvents /\ events <= events'
      /\ Comes(q) <= Comes(asking[r]) + (events' - events)
  BY <1>3, <1>4, CodesAssumption DEF CodesInv, CodesOK
<1>6. \A j \in Kinds : Stores(q, j) <= Stores(asking[r], j)
  BY <1>4
<1> QED
  BY <1>2, <1>3, <1>4, <1>5, <1>6, StillAged, AgedWhileAsked

(* A request goes on without being about to store a code.                  *)
LEMMA GoesOn ==
    ASSUME CodesInv, Aged, verified' \in BOOLEAN, NEW r \in Requests,
           NEW q \in {Quiet, [op |-> "confirm"]}, ContinueAsking(r, q)
    PROVE  CodesInv'
<1>1. asking' = [asking EXCEPT ![r] = q] /\ events' = events
  BY DEF ContinueAsking
<1>2. /\ q \in Asking /\ q.op # "mark" /\ Comes(q) = 0
      /\ Comes(asking[r]) \in {0, 1}
      /\ \A k : Stores(q, k) = 0 /\ Stores(asking[r], k) \in {0, 1}
  BY DEF Asking, Comes, Stores, Quiet
<1>3. /\ events' \in Nat /\ events' <= MaxEvents /\ events <= events'
      /\ Comes(q) <= Comes(asking[r]) + (events' - events)
  BY <1>1, <1>2 DEF CodesInv, CodesOK
<1>4. \A k \in Kinds : Stores(q, k) <= Stores(asking[r], k)
  BY <1>2
<1> QED
  BY <1>1, <1>2, <1>3, <1>4, AgedWhileAsked

(* One code changes.                                                       *)
LEMMA OneAged ==
    ASSUME CodesInv, NEW i \in 1..Len(codes), NEW new \in Code,
           codes' = [codes EXCEPT ![i] = new],
           new.kind = codes[i].kind,
           new.status = "unused" =>
              /\ codes[i].status = "unused"
              /\ codes[i].kind # "PHONE_OTP" /\ new.accepted => codes[i].accepted
    PROVE  Aged
<1>1. /\ codes \in Seq(Code) /\ Len(codes') = Len(codes) /\ codes' \in Seq(Code)
      /\ \A j \in 1..Len(codes) : codes'[j] = IF j = i THEN new ELSE codes[j]
  BY DEF CodesInv, CodesOK
<1> QED
  BY <1>1 DEF Aged

LEMMA ProceedsTo ==
    ASSUME NEW r \in Requests, Proceed(r)
    PROVE  \E q \in {Quiet, [op |-> "confirm"]} : ContinueAsking(r, q)
BY DEF Proceed

LEMMA MarkUsedKeeps ==
    ASSUME CodesInv, NEW r \in Requests, MarkUsed(r)
    PROVE  CodesInv'
<1> DEFINE i == asking[r].code
           new == Accept(Mark(codes[i]))
<1>1. /\ i \in 1..Len(codes) /\ codes[i] \in Code
      /\ codes' = [codes EXCEPT ![i] = new]
      /\ Proceed(r) /\ verified' = verified
  BY DEF MarkUsed, CodesInv, CodesOK
<1>2. /\ new \in Code /\ new.kind = codes[i].kind /\ new.status # "unused"
  BY <1>1 DEF Accept, Mark, Code
<1> HIDE DEF new, i
<1>3. Aged
  BY <1>1, <1>2, OneAged
<1>4. verified' \in BOOLEAN
  BY <1>1 DEF CodesInv, CodesOK
<1> QED
  BY <1>1, <1>3, <1>4, ProceedsTo, GoesOn

LEMMA MarkFailsKeeps ==
    ASSUME CodesInv, NEW r \in Requests, MarkFails(r)
    PROVE  CodesInv'
<1> DEFINE i == asking[r].code
           new == Accept(codes[i])
<1>1. /\ i \in 1..Len(codes) /\ codes[i] \in Code
      /\ verified' = verified /\ verified' \in BOOLEAN
      /\ \/ /\ codes[i].kind = "PHONE_OTP"
            /\ codes' = [codes EXCEPT ![i] = new] /\ Proceed(r)
         \/ ContinueAsking(r, Quiet) /\ codes' = codes
  BY DEF MarkFails, CodesInv, CodesOK, Swallows
<1>2. /\ new \in Code /\ new.kind = codes[i].kind /\ new.status = codes[i].status
  BY <1>1 DEF Accept, Code
<1> HIDE DEF new, i
<1>3. CASE codes[i].kind = "PHONE_OTP" /\ codes' = [codes EXCEPT ![i] = new] /\ Proceed(r)
  <2>1. Aged
    BY <1>1, <1>2, <1>3, OneAged
  <2> QED
    BY <1>1, <1>3, <2>1, ProceedsTo, GoesOn
<1>4. CASE ContinueAsking(r, Quiet) /\ codes' = codes
  BY <1>1, <1>4, StillAged, GoesOn
<1> QED
  BY <1>1, <1>3, <1>4

LEMMA ConfirmKeeps ==
    ASSUME CodesInv, NEW r \in Requests, Confirm(r)
    PROVE  CodesInv'
<1>1. verified' \in BOOLEAN /\ ContinueAsking(r, Quiet) /\ codes' = codes
  BY DEF Confirm
<1> QED
  BY <1>1, StillAged, GoesOn

LEMMA ExpireCodeKeeps ==
    ASSUME CodesInv, ExpireCode
    PROVE  CodesInv'
<1>1. PICK i \in DOMAIN codes :
         /\ codes' = [codes EXCEPT ![i].status = "expired"]
         /\ UNCHANGED <<verified, asking, events>>
  BY DEF ExpireCode
<1> DEFINE new == [codes[i] EXCEPT !.status = "expired"]
<1>2. /\ i \in 1..Len(codes) /\ codes[i] \in Code
      /\ codes' = [codes EXCEPT ![i] = new]
  BY <1>1 DEF CodesInv, CodesOK
<1>3. new \in Code /\ new.kind = codes[i].kind /\ new.status = "expired"
  BY <1>2 DEF Code
<1> HIDE DEF new
<1>4. Aged
  BY <1>2, <1>3, OneAged
<1> QED
  BY <1>1, <1>4, AgedAlone

LEMMA CodesStepKeeps == CodesInv /\ CodesStep => CodesInv'
<1> SUFFICES ASSUME CodesInv, CodesStep PROVE CodesInv'
  OBVIOUS
<1>1. \A k \in {"PHONE_OTP", "EMAIL_VERIFY", "STAFF_INVITE", "MECHANIC_INVITE"} : k \in Kinds
  BY DEF Kinds
<1>2. ASSUME NEW r \in Requests,
             \/ SendOtp(r) \/ SendEmailOtp(r)
             \/ SendStaffInviteOtp(r) \/ SendMechanicInviteOtp(r)
      PROVE  CodesInv'
  <2>1. \E k \in Kinds : Send(r, k)
    BY <1>1, <1>2 DEF SendOtp, SendEmailOtp, SendStaffInviteOtp, SendMechanicInviteOtp
  <2> QED
    BY <2>1, SendKeeps
<1>3. ASSUME NEW r \in Requests,
             \/ VerifyOtp(r) \/ VerifyEmailOtp(r)
             \/ VerifyStaffInviteOtp(r) \/ VerifyMechanicInviteOtp(r)
      PROVE  CodesInv'
  <2>1. \E k \in Kinds : Check(r, k)
    BY <1>1, <1>3
       DEF VerifyOtp, VerifyEmailOtp, VerifyStaffInviteOtp, VerifyMechanicInviteOtp
  <2> QED
    BY <2>1, CheckKeeps
<1> QED
  BY <1>2, <1>3, VerifyAnewKeeps, ResendKeeps, CreateCodeKeeps, MarkUsedKeeps,
     MarkFailsKeeps, ConfirmKeeps, ExpireCodeKeeps DEF CodesStep

-----------------------------------------------------------------------------
(* What the background work does to codes and requests.                    *)
LEMMA CleanedUp ==
    ASSUME CodesInv, codes' = WithoutExpired, UNCHANGED <<verified, asking, events>>
    PROVE  CodesInv'
<1>1. /\ codes \in Seq(Code) /\ DOMAIN codes = 1..Len(codes) /\ Len(codes) \in Nat
      /\ \A i \in 1..Len(codes) : codes[i] \in Code
  BY DEF CodesInv, CodesOK
<1>2. DOMAIN codes' = 1..Len(codes) /\ codes' = [i \in 1..Len(codes) |-> codes'[i]]
  BY <1>1 DEF WithoutExpired
<1>3. \A i \in 1..Len(codes) :
         /\ codes'[i] \in Code
         /\ codes'[i].kind = codes[i].kind /\ codes'[i].accepted = codes[i].accepted
         /\ codes'[i].status \in {codes[i].status, "deleted"}
  <2>1. \A i \in 1..Len(codes) :
           codes'[i] = IF codes[i].status = "expired"
                       THEN [codes[i] EXCEPT !.status = "deleted"] ELSE codes[i]
    BY <1>1 DEF WithoutExpired, Expired
  <2> QED
    BY <1>1, <2>1 DEF Code
<1>4. codes' \in Seq(Code) /\ Len(codes') = Len(codes)
  <2>1. codes' \in [1..Len(codes) -> Code]
    BY <1>2, <1>3
  <2> QED
    BY <1>1, <2>1
<1>5. Aged
  BY <1>3, <1>4 DEF Aged
<1> QED
  BY <1>5, AgedAlone

(* Something else comes from outside.                                      *)
LEMMA EventKeeps ==
    ASSUME CodesInv, Event, UNCHANGED <<codes, verified, asking>>
    PROVE  CodesInv'
<1>1. events' \in Nat /\ events' <= MaxEvents /\ events <= events' /\ events \in Nat
  BY CodesAssumption DEF Event, CodesInv, CodesOK
<1>2. CodesOK'
  BY <1>1, CodesCounted DEF CodesInv, CodesOK, Coming
<1>3. LiveOrComing'
  <2>1. \A k : Usable(k)' = Usable(k) /\ Creating(k)' = Creating(k)
    BY DEF Usable, Creating
  <2> QED
    BY <2>1 DEF CodesInv, LiveOrComing
<1> QED
  BY <1>2, <1>3 DEF CodesInv, AcceptedIsSpent

LEMMA CrashKeepsCodes ==
    ASSUME CodesInv, Crash
    PROVE  CodesInv'
<1>1. /\ asking' = [r \in Requests |-> Quiet]
      /\ events < MaxEvents /\ events' = events + 1
      /\ codes' = codes /\ verified' = verified
  BY DEF Crash, Event
<1>2. Quiet \in Asking /\ Quiet.op # "mark" /\ Quiet.op # "create" /\ Quiet.op # "resend"
  BY DEF Asking, Quiet
<1>3. Coming' = {} /\ \A k : Creating(k)' = {} /\ Usable(k)' = Usable(k)
  BY <1>1, <1>2 DEF Coming, Creating, Usable
<1>4. Cardinality({}) = 0
  BY FS_EmptySet
<1>5. CodesOK'
  <2>1. /\ codes \in Seq(Code) /\ verified \in BOOLEAN /\ events \in Nat
        /\ Len(codes) \in Nat /\ MaxEvents \in Nat
        /\ Len(codes) + Cardinality(Coming) <= events /\ Cardinality(Coming) \in Nat
    BY CodesAssumption, CodesCounted DEF CodesInv, CodesOK
  <2>2. Len(codes') + Cardinality(Coming') <= events' /\ events' \in Nat /\ events' <= MaxEvents
    BY <1>1, <1>3, <1>4, <2>1
  <2>3. /\ asking' \in [Requests -> Asking]
        /\ \A r \in Requests : asking'[r].op = "mark" => asking'[r].code \in 1..Len(codes')
    BY <1>1, <1>2
  <2> QED
    BY <1>1, <2>1, <2>2, <2>3 DEF CodesOK
<1>6. LiveOrComing'
  <2> SUFFICES ASSUME NEW k \in Kinds
               PROVE  Cardinality(Usable(k)') + Cardinality(Creating(k)')
                        <= Cardinality(Requests)
    BY DEF LiveOrComing
  <2>1. /\ Cardinality(Usable(k)) \in Nat /\ Cardinality(Creating(k)) \in Nat
        /\ Cardinality(Requests) \in Nat
        /\ Cardinality(Usable(k)) + Cardinality(Creating(k)) <= Cardinality(Requests)
    BY CodesCounted DEF CodesInv, LiveOrComing
  <2>2. /\ Cardinality(Usable(k)') = Cardinality(Usable(k))
        /\ Cardinality(Creating(k)') = 0
    BY <1>3, <1>4, Zenon
  <2> QED
    BY <2>1, <2>2
<1> QED
  BY <1>1, <1>5, <1>6 DEF CodesInv, AcceptedIsSpent

LEMMA HousekeepingKeepsCodes ==
    CodesInv /\ [HousekeepingNext]_housekeepingVars => CodesInv'
<1> SUFFICES ASSUME CodesInv, [HousekeepingNext]_housekeepingVars
             PROVE  CodesInv'
  OBVIOUS
<1>1. ASSUME UNCHANGED codeVars
      PROVE  CodesInv'
  BY <1>1 DEF codeVars, CodesInv, CodesOK, Coming, LiveOrComing, Usable, Creating,
     AcceptedIsSpent
<1>2. CASE CodesStep
  BY <1>2, CodesStepKeeps
<1>3. CASE Boot \/ AddRepeat \/ AddFails \/ UNCHANGED housekeepingVars
  BY <1>1, <1>3 DEF Boot, AddRepeat, AddFails, housekeepingVars
<1>4. CASE Enqueue
  BY <1>4, EventKeeps DEF Enqueue
<1>5. CASE CleanUp \/ CleanUpFails \/ LegacyCleanUp
  <2>1. UNCHANGED <<verified, asking, events>> /\ (codes' = WithoutExpired \/ codes' = codes)
    BY <1>5 DEF CleanUp, CleanUpFails, LegacyCleanUp
  <2> QED
    BY <1>1, <2>1, CleanedUp DEF codeVars
<1>6. ASSUME NEW j \in JobKinds, Fire(j)
      PROVE  CodesInv'
  <2>1. UNCHANGED <<codes, verified, asking>> /\ (Event \/ events' = events)
    BY <1>6 DEF Fire
  <2> QED
    BY <1>1, <2>1, EventKeeps DEF codeVars
<1>7. ASSUME NEW j \in JobKinds, Pick(j) \/ Work(j) \/ Settle(j) \/ FindStalled(j)
      PROVE  CodesInv'
  BY <1>1, <1>7 DEF Pick, Work, Settle, FindStalled
<1> QED
  BY <1>2, <1>3, <1>4, <1>5, <1>6, <1>7, CrashKeepsCodes DEF HousekeepingNext

-----------------------------------------------------------------------------
(* The jobs.                                                               *)
JobsInv == JobsOK /\ ReportsAreTrue /\ CompletedWasDone

(* What is said of one job.                                                *)
JobRight(b) ==
    /\ b \in Job
    /\ b.outcome = "done" \/ b.state = "completed" => b.done

LEMMA JobsRight ==
    ASSUME JobsInv
    PROVE  \A j \in JobKinds : JobRight(job[j])
BY DEF JobsInv, JobsOK, ReportsAreTrue, CompletedWasDone, JobRight

LEMMA JobsStayRight ==
    ASSUME job' \in [JobKinds -> Job], \A j \in JobKinds : JobRight(job'[j]),
           mode' \in {"down", "workers", "legacy"}, schedule' \in Seq(JobKinds),
           repeats' \subseteq JobKinds
    PROVE  JobsInv'
BY DEF JobsInv, JobsOK, ReportsAreTrue, CompletedWasDone, JobRight

(* One job changes.                                                        *)
LEMMA OneJob ==
    ASSUME JobsInv, NEW j, NEW new, j \in JobKinds => JobRight(new),
           job' = [job EXCEPT ![j] = new], UNCHANGED <<mode, schedule, repeats>>
    PROVE  JobsInv'
<1>1. job \in [JobKinds -> Job] /\ mode \in {"down", "workers", "legacy"}
      /\ schedule \in Seq(JobKinds) /\ repeats \subseteq JobKinds
  BY DEF JobsInv, JobsOK
<1>2. \A i \in JobKinds : job'[i] = IF i = j THEN new ELSE job[i]
  BY <1>1
<1>3. \A i \in JobKinds : JobRight(job'[i])
  BY <1>2, JobsRight
<1>4. job' = [i \in JobKinds |-> job'[i]]
  BY <1>1
<1>5. job' \in [JobKinds -> Job]
  BY <1>3, <1>4 DEF JobRight
<1> QED
  BY <1>1, <1>3, <1>5, JobsStayRight

LEMMA RecurringKnown == Recurring \in Seq(JobKinds)
<1>1. \A j : Added(j) \in Seq(JobKinds)
  BY DEF Added
<1> QED
  BY <1>1 DEF Recurring

LEMMA NewJobsRight == JobRight(NoJob) /\ JobRight(Waiting)
BY DEF JobRight, NoJob, Waiting, Job

LEMMA CrashKeepsJobs ==
    ASSUME JobsInv, Crash
    PROVE  JobsInv'
<1>1. /\ job \in [JobKinds -> Job] /\ repeats' = repeats /\ repeats \subseteq JobKinds
      /\ mode' = "down" /\ schedule' = <<>>
      /\ job' = [j \in JobKinds |-> [job[j] EXCEPT !.held = FALSE, !.outcome = "unknown"]]
  BY DEF Crash, JobsInv, JobsOK
<1>2. \A j \in JobKinds : JobRight(job'[j])
  <2> SUFFICES ASSUME NEW j \in JobKinds PROVE JobRight(job'[j])
    OBVIOUS
  <2>1. job'[j] = [job[j] EXCEPT !.held = FALSE, !.outcome = "unknown"]
    BY <1>1
  <2> QED
    BY <2>1, JobsRight DEF JobRight, Job
<1>3. job' \in [JobKinds -> Job]
  BY <1>1, <1>2 DEF JobRight
<1>4. /\ mode' \in {"down", "workers", "legacy"} /\ schedule' \in Seq(JobKinds)
      /\ repeats' \subseteq JobKinds
  <2>1. /\ mode' = "down" /\ schedule' = <<>> /\ repeats' = repeats
        /\ repeats \subseteq JobKinds
    BY <1>1
  <2> QED
    BY <2>1
<1> QED
  BY <1>2, <1>3, <1>4, JobsStayRight

LEMMA WorkedKeepsJobs ==
    ASSUME JobsInv, NEW j, NEW outcome \in {"done", "error"}, NEW done \in BOOLEAN,
           outcome = "done" => done, Worked(j, outcome, done)
    PROVE  JobsInv'
<1> DEFINE new == [job[j] EXCEPT !.outcome = outcome, !.done = @ \/ done]
<1>1. /\ job[j].state = "active"
      /\ job' = [job EXCEPT ![j] = new]
      /\ UNCHANGED <<mode, schedule, repeats>>
  BY DEF Worked, Running
<1>2. ASSUME j \in JobKinds
      PROVE  JobRight(new)
  <2>1. JobRight(job[j])
    BY <1>2, JobsRight
  <2>2. /\ new \in Job /\ new.outcome = outcome /\ new.state = "active"
        /\ new.done = (job[j].done \/ done)
    BY <1>1, <2>1 DEF JobRight, Job
  <2> QED
    BY <2>2 DEF JobRight
<1> HIDE DEF new
<1> QED
  BY <1>1, <1>2, OneJob

LEMMA SettleKeepsJobs ==
    ASSUME JobsInv, NEW j \in JobKinds, Settle(j)
    PROVE  JobsInv'
<1> DEFINE settled == IF job[j].outcome = "done"
                      THEN [NoJob EXCEPT !.state = "completed", !.done = job[j].done]
                      ELSE Retries(j)
           new == [settled EXCEPT !.held = FALSE, !.outcome = "unknown"]
<1>1. job' = [job EXCEPT ![j] = new] /\ UNCHANGED <<mode, schedule, repeats>>
  BY DEF Settle
<1>2. JobRight(job[j])
  BY JobsRight
<1>3. CASE job[j].outcome = "done"
  <2>1. settled = [NoJob EXCEPT !.state = "completed", !.done = job[j].done]
    BY <1>3
  <2>2. settled \in Job /\ settled.done = job[j].done
    <3>1. NoJob \in Job /\ job[j].done \in BOOLEAN
      BY <1>2 DEF NoJob, Job, JobRight
    <3> QED
      BY <2>1, <3>1 DEF Job
  <2> HIDE DEF settled
  <2>3. new \in Job /\ new.done = job[j].done
    BY <2>2 DEF Job
  <2>4. JobRight(new)
    BY <1>2, <1>3, <2>3 DEF JobRight
  <2> HIDE DEF new
  <2> QED
    BY <1>1, <2>4, OneJob
<1>4. CASE job[j].outcome # "done"
  <2>1. settled = Retries(j)
    BY <1>4
  <2>2. /\ Retries(j) \in Job /\ Retries(j).state \in {"waiting", "failed"}
    <3> DEFINE tries == job[j].tries + 1
               state == IF tries < Attempts(j) THEN "waiting" ELSE "failed"
    <3>1. tries \in Nat /\ state \in {"waiting", "failed"}
      BY <1>2 DEF JobRight, Job
    <3>2. Retries(j) = [job[j] EXCEPT !.tries = tries, !.state = state]
      BY DEF Retries
    <3> HIDE DEF tries, state
    <3> QED
      BY <1>2, <3>1, <3>2 DEF JobRight, Job
  <2> HIDE DEF settled
  <2>3. new \in Job /\ new.outcome = "unknown" /\ new.state # "completed"
    BY <2>1, <2>2 DEF Job
  <2>4. JobRight(new)
    BY <2>3 DEF JobRight
  <2> HIDE DEF new
  <2> QED
    BY <1>1, <2>4, OneJob
<1> QED
  BY <1>3, <1>4

LEMMA QueuesKeepJobs ==
    ASSUME JobsInv,
           \/ CodesStep /\ UNCHANGED jobVars
           \/ LegacyCleanUp \/ UNCHANGED housekeepingVars
           \/ Boot \/ AddRepeat \/ AddFails \/ Enqueue
    PROVE  JobsInv'
<1>1. CASE UNCHANGED jobVars
  BY <1>1 DEF jobVars, JobsInv, JobsOK, ReportsAreTrue, CompletedWasDone
<1>2. ASSUME job' = job, mode' \in {"down", "workers", "legacy"},
             schedule' \in Seq(JobKinds), repeats' \subseteq JobKinds
      PROVE  JobsInv'
  BY <1>2 DEF JobsInv, JobsOK, ReportsAreTrue, CompletedWasDone
<1>3. /\ mode \in {"down", "workers", "legacy"}
      /\ schedule \in Seq(JobKinds) /\ repeats \subseteq JobKinds
  BY DEF JobsInv, JobsOK
<1>4. CASE Boot
  BY <1>2, <1>3, <1>4, RecurringKnown DEF Boot, WithoutRedis
<1>5. CASE AddRepeat
  <2>1. schedule # <<>> /\ job' = job /\ mode' = mode
        /\ repeats' = repeats \cup {Head(schedule)} /\ schedule' = Tail(schedule)
    BY <1>5 DEF AddRepeat
  <2>2. Head(schedule) \in JobKinds /\ Tail(schedule) \in Seq(JobKinds)
    BY <1>3, <2>1
  <2> QED
    BY <1>2, <1>3, <2>1, <2>2
<1>6. CASE AddFails
  <2>1. <<>> \in Seq(JobKinds)
    OBVIOUS
  <2> QED
    BY <1>2, <1>3, <1>6, <2>1 DEF AddFails
<1>7. CASE Enqueue
  BY <1>7, NewJobsRight, OneJob DEF Enqueue
<1> QED
  BY <1>1, <1>4, <1>5, <1>6, <1>7 DEF LegacyCleanUp, housekeepingVars

LEMMA CleanUpKeepsJobs ==
    ASSUME JobsInv, CleanUp \/ CleanUpFails
    PROVE  JobsInv'
<1>1. \E outcome \in {"done", "error"}, done \in BOOLEAN :
         (outcome = "done" => done) /\ Worked("cleanup", outcome, done)
  BY DEF CleanUp, CleanUpFails
<1> QED
  BY <1>1, WorkedKeepsJobs

LEMMA WorkKeepsJobs ==
    ASSUME JobsInv, NEW j \in JobKinds, Work(j)
    PROVE  JobsInv'
<1>1. PICK error \in BOOLEAN, done \in BOOLEAN :
         (error \/ done) /\ Worked(j, Reported(error), done)
  BY DEF Work
<1>2. Reported(error) \in {"done", "error"} /\ (Reported(error) = "done" => done)
  BY <1>1 DEF Reported
<1> QED
  BY <1>1, <1>2, WorkedKeepsJobs

LEMMA FireKeepsJobs ==
    ASSUME JobsInv, NEW j \in JobKinds, Fire(j)
    PROVE  JobsInv'
BY NewJobsRight, OneJob DEF Fire

LEMMA PickKeepsJobs ==
    ASSUME JobsInv, NEW j \in JobKinds, Pick(j)
    PROVE  JobsInv'
<1> DEFINE new == [job[j] EXCEPT !.state = "active", !.held = TRUE]
<1>1. JobRight(job[j]) /\ job \in [JobKinds -> Job]
  BY JobsRight DEF JobsInv, JobsOK
<1>2. job' = [job EXCEPT ![j] = new] /\ UNCHANGED <<mode, schedule, repeats>>
  BY <1>1 DEF Pick
<1>3. JobRight(new)
  BY <1>1 DEF JobRight, Job
<1> HIDE DEF new
<1> QED
  BY <1>2, <1>3, OneJob

LEMMA FindStalledKeepsJobs ==
    ASSUME JobsInv, NEW j \in JobKinds, FindStalled(j)
    PROVE  JobsInv'
<1> DEFINE state == IF job[j].stalled THEN "failed" ELSE "waiting"
           new == [job[j] EXCEPT !.state = state, !.stalled = TRUE]
<1>1. JobRight(job[j]) /\ job \in [JobKinds -> Job]
  BY JobsRight DEF JobsInv, JobsOK
<1>2. job' = [job EXCEPT ![j] = new] /\ UNCHANGED <<mode, schedule, repeats>>
  BY <1>1 DEF FindStalled
<1>3. state \in {"failed", "waiting"}
  OBVIOUS
<1> HIDE DEF state
<1>4. JobRight(new)
  BY <1>1, <1>3 DEF JobRight, Job
<1> HIDE DEF new
<1> QED
  BY <1>2, <1>4, OneJob

LEMMA HousekeepingKeepsJobs ==
    JobsInv /\ [HousekeepingNext]_housekeepingVars => JobsInv'
BY QueuesKeepJobs, CleanUpKeepsJobs, CrashKeepsJobs, WorkKeepsJobs, FireKeepsJobs,
   PickKeepsJobs, SettleKeepsJobs, FindStalledKeepsJobs DEF HousekeepingNext

-----------------------------------------------------------------------------
LEMMA HousekeepingBegins == HousekeepingInit => HousekeepingInv
<1> SUFFICES ASSUME HousekeepingInit PROVE HousekeepingInv
  OBVIOUS
<1>1. /\ codes = <<>> /\ Len(codes) = 0 /\ DOMAIN codes = {}
      /\ asking = [r \in Requests |-> Quiet] /\ events = 0
      /\ mode = "down" /\ schedule = <<>> /\ repeats = {}
      /\ job = [j \in JobKinds |-> NoJob] /\ verified \in BOOLEAN
  BY DEF HousekeepingInit, CodesInit
<1>2. Quiet \in Asking /\ Quiet.op = "quiet"
  BY DEF Asking, Quiet
<1>3. Coming = {} /\ \A k : Creating(k) = {} /\ Usable(k) = {}
  BY <1>1, <1>2 DEF Coming, Creating, Usable
<1>4. Cardinality({}) = 0 /\ Cardinality(Requests) \in Nat
  BY CodesAssumption, FS_EmptySet, FS_CardinalityType
<1>5. CodesOK
  BY <1>1, <1>2, <1>3, <1>4, CodesAssumption DEF CodesOK
<1>6. LiveOrComing
  BY <1>3, <1>4 DEF LiveOrComing
<1>7. AcceptedIsSpent
  BY <1>1 DEF AcceptedIsSpent
<1>8. JobsOK /\ ReportsAreTrue /\ CompletedWasDone
  BY <1>1 DEF NoJob, Job, JobsOK, ReportsAreTrue, CompletedWasDone
<1> QED
  BY <1>5, <1>6, <1>7, <1>8 DEF HousekeepingInv

LEMMA HousekeepingKept ==
    HousekeepingInv /\ [HousekeepingNext]_housekeepingVars => HousekeepingInv'
BY HousekeepingKeepsCodes, HousekeepingKeepsJobs DEF HousekeepingInv, CodesInv, JobsInv

THEOREM HousekeepingCorrect == HousekeepingSpec => []HousekeepingInv
BY HousekeepingBegins, HousekeepingKept, PTL DEF HousekeepingSpec

(* Codes, requests and jobs are always of their types; no more codes exist *)
(* than were asked for.                                                    *)
THEOREM HousekeepingTypes == HousekeepingSpec => []HousekeepingTypeOK
<1>1. HousekeepingInv => HousekeepingTypeOK
  <2> SUFFICES ASSUME HousekeepingInv PROVE HousekeepingTypeOK
    OBVIOUS
  <2> DEFINE T == {Quiet, [op |-> "resend"], [op |-> "confirm"]}
                  \cup [op : {"create"}, kind : Kinds] \cup [op : {"mark"}, code : 1..MaxEvents]
  <2>1. /\ Len(codes) \in Nat /\ Cardinality(Coming) \in Nat /\ MaxEvents \in Nat
        /\ Len(codes) + Cardinality(Coming) <= events /\ events <= MaxEvents /\ events \in Nat
    BY CodesAssumption, CodesCounted DEF HousekeepingInv, CodesOK
  <2>2. 1..Len(codes) \subseteq 1..MaxEvents
    BY <2>1
  <2>3. asking \in [Requests -> T]
    <3> SUFFICES ASSUME NEW r \in Requests PROVE asking[r] \in T
      BY DEF HousekeepingInv, CodesOK
    <3>1. asking[r] \in Asking /\ (asking[r].op = "mark" => asking[r].code \in 1..MaxEvents)
      BY <2>2 DEF HousekeepingInv, CodesOK
    <3> QED
      BY <3>1 DEF Asking, Quiet
  <2> QED
    BY <2>3 DEF HousekeepingTypeOK, HousekeepingInv, CodesOK, JobsOK
<1> QED
  BY <1>1, HousekeepingCorrect, PTL

(* However requests for codes overlap, expire or die, no more codes of one *)
(* type can be used at once than requests are served at once (otp.js       *)
(* 17-26, email.js 322-331).                                               *)
THEOREM LiveCodesAreBounded == HousekeepingSpec => []LiveCodesBounded
<1>1. HousekeepingInv => LiveCodesBounded
  <2> SUFFICES ASSUME HousekeepingInv, NEW k \in Kinds
               PROVE  Cardinality(Usable(k)) <= Cardinality(Requests)
    BY DEF LiveCodesBounded
  <2>1. /\ Cardinality(Usable(k)) \in Nat /\ Cardinality(Creating(k)) \in Nat
        /\ Cardinality(Requests) \in Nat
        /\ Cardinality(Usable(k)) + Cardinality(Creating(k)) <= Cardinality(Requests)
    BY CodesCounted DEF HousekeepingInv, LiveOrComing
  <2> QED
    BY <2>1
<1> QED
  BY <1>1, HousekeepingCorrect, PTL

(* The code of an e-mail that let a request go on is spent, whatever fails *)
(* or is deleted between the check and the mark (email.js 350-370).        *)
THEOREM AcceptedCodesAreSpent == HousekeepingSpec => []AcceptedIsSpent
<1>1. HousekeepingInv => AcceptedIsSpent
  BY DEF HousekeepingInv
<1> QED
  BY <1>1, HousekeepingCorrect, PTL

(* A job that is completed did its work at least once, through stalls,     *)
(* retries and crashes (email.worker.js 38-42).                            *)
THEOREM CompletedJobsWereDone == HousekeepingSpec => []CompletedWasDone
<1>1. HousekeepingInv => CompletedWasDone
  BY DEF HousekeepingInv
<1> QED
  BY <1>1, HousekeepingCorrect, PTL

-----------------------------------------------------------------------------
(* The catalogue.  A row that is promised to be fitted and was dealt with  *)
(* is fitted, if it has a number.                                          *)
PromisesKept ==
    \A c \in Users :
        req[c].op \in {"fit", "newVehicle"} =>
            \A p \in req[c].promise \ req[c].todo :
                p \notin Unnumbered => \E i \in VehiclesOf(req[c].model) : Fits(p, i)

(* What the imports that are under way have inserted and not yet logged.   *)
Unlogged == [c \in Users |-> IF req[c].op = "log" THEN req[c].inserted ELSE 0]
Logged == [i \in DOMAIN importLog |-> importLog[i].inserted]
LoggedOrComing == SumFunction(Logged) + SumFunction(Unlogged) <= Cardinality(Imported)

StagingInv == StagingTypeOK /\ PromisesKept /\ FittedAsAnswered /\ LoggedOrComing

Reqs == CatalogueReq \cup StagingReq

(* The parts that fit a vehicle of a model, if they have a number, and     *)
(* what it is to have kept the promise of a fitting.                       *)
Fitted == {pair \in Parts \X Models :
             pair[1] \notin Unnumbered => \E i \in VehiclesOf(pair[2]) : Fits(pair[1], i)}
Kept(q, fitted) ==
    q.op \in {"fit", "newVehicle"} =>
        \A p \in q.promise \ q.todo : <<p, q.model>> \in fitted
ToLog(q) == IF q.op = "log" THEN q.inserted ELSE 0

(* What a request carries.                                                 *)
LEMMA ReqKinds ==
    ASSUME NEW q \in Reqs
    PROVE  /\ q.op \in {"fit", "newVehicle"} =>
                 q.todo \in SUBSET Parts /\ q.promise \in SUBSET Parts /\ q.model \in Models
           /\ q.op = "newVehicle" => q.part \in Parts
           /\ q.op = "import" =>
                 q.new \in SUBSET Parts /\ q.model \in Models \cup {NoModel}
           /\ q.op = "ask" => q.part \in Parts /\ q.model \in Models
           /\ q.op = "staged" => q.rows \in SUBSET Staged
           /\ q.op = "log" => q.inserted \in Nat
           /\ ToLog(q) \in Nat
BY DEF Reqs, CatalogueReq, StagingReq, Idle, ToLog

LEMMA StagingFacts ==
    ASSUME StagingTypeOK
    PROVE  /\ IsFiniteSet(Users) /\ IsFiniteSet(Parts) /\ Staged \subseteq Parts
           /\ DOMAIN vehicles = 1..Len(vehicles) /\ Len(vehicles) \in Nat
           /\ req \in [Users -> Reqs]
           /\ DOMAIN importLog = 1..Len(importLog) /\ Len(importLog) \in Nat
           /\ \A i \in 1..Len(importLog) : importLog[i] \in LogRow
BY CatalogueAssumption, StagingAssumption DEF StagingTypeOK, Reqs

(* Rows of vehicles and of fitments are only added.                        *)
Grows ==
    /\ fitments \subseteq fitments'
    /\ \/ vehicles' = vehicles
       \/ \E model \in Models : vehicles' = Append(vehicles, model)

LEMMA FittedGrows ==
    ASSUME StagingTypeOK, Grows
    PROVE  Fitted \subseteq Fitted'
<1> SUFFICES ASSUME NEW pair \in Parts \X Models,
                    NEW i \in VehiclesOf(pair[2]), Fits(pair[1], i)
             PROVE  i \in VehiclesOf(pair[2])' /\ Fits(pair[1], i)'
  BY Zenon DEF Fitted
<1>1. i \in 1..Len(vehicles) /\ vehicles[i] = pair[2] /\ vehicles \in Seq(Models)
  BY StagingFacts DEF VehiclesOf, StagingTypeOK
<1>2. i \in DOMAIN vehicles' /\ vehicles'[i] = pair[2]
  BY <1>1 DEF Grows
<1> QED
  BY <1>2 DEF VehiclesOf, Fits, Grows

LEMMA PromisesOf ==
    ASSUME StagingTypeOK
    PROVE  /\ PromisesKept <=> \A c \in Users : Kept(req[c], Fitted)
           /\ FittedAsAnswered <=> answered \subseteq Fitted
<1>1. \A c \in Users : req[c] \in Reqs
  BY StagingFacts
<1>2. \A c \in Users : req[c].op \in {"fit", "newVehicle"} =>
         req[c].promise \in SUBSET Parts /\ req[c].model \in Models
  BY <1>1, ReqKinds
<1>3. answered \subseteq Parts \X Models
  BY DEF StagingTypeOK
<1>4. PromisesKept <=> \A c \in Users : Kept(req[c], Fitted)
  BY <1>2 DEF PromisesKept, Kept, Fitted
<1>5. FittedAsAnswered <=> answered \subseteq Fitted
  BY <1>3 DEF FittedAsAnswered, Fitted
<1> QED
  BY <1>4, <1>5

(* One request goes on, and leaves the others as they are.                 *)
LEMMA PromiseTurns ==
    ASSUME StagingTypeOK, StagingTypeOK', Grows, PromisesKept, FittedAsAnswered,
           NEW c \in Users, NEW q, req' = [req EXCEPT ![c] = q], Kept(q, Fitted'),
           answered' \subseteq answered \cup Fitted
    PROVE  PromisesKept' /\ FittedAsAnswered'
<1>1. Fitted \subseteq Fitted'
  BY FittedGrows
<1>2. /\ \A d \in Users : Kept(req[d], Fitted)
      /\ answered \subseteq Fitted
      /\ req \in [Users -> Reqs]
  BY PromisesOf, StagingFacts
<1>3. \A d \in Users : Kept(req'[d], Fitted')
  <2> HIDE DEF Fitted
  <2> QED
    BY <1>1, <1>2 DEF Kept
<1>4. answered' \subseteq Fitted'
  BY <1>1, <1>2
<1>5. PromisesKept'
  BY <1>3 DEF PromisesKept, Kept, Fitted
<1>6. FittedAsAnswered'
  BY <1>4 DEF FittedAsAnswered, Fitted
<1> QED
  BY <1>5, <1>6

-----------------------------------------------------------------------------
(* The log of the imports.                                                 *)
LEMMA LogFacts ==
    ASSUME StagingTypeOK
    PROVE  /\ IsFiniteSet(Imported) /\ Cardinality(Imported) \in Nat
           /\ Logged \in [1..Len(importLog) -> Int] /\ SumFunction(Logged) \in Nat
           /\ Unlogged \in [Users -> Int] /\ SumFunction(Unlogged) \in Nat
<1>1. IsFiniteSet(Imported) /\ Cardinality(Imported) \in Nat
  <2>1. Imported \subseteq Parts
    BY DEF Imported
  <2> QED
    BY <2>1, StagingFacts, FS_Subset, FS_CardinalityType
<1>2. Logged \in [1..Len(importLog) -> Nat]
  BY StagingFacts DEF Logged, LogRow
<1>3. Unlogged \in [Users -> Nat]
  <2>1. \A c \in Users : ToLog(req[c]) \in Nat
    BY StagingFacts, ReqKinds
  <2> QED
    BY <2>1 DEF Unlogged, ToLog
<1>4. IsFiniteSet(1..Len(importLog)) /\ IsFiniteSet(Users)
  BY StagingFacts, FS_Interval
<1>5. SumFunction(Logged) \in Nat /\ SumFunction(Unlogged) \in Nat
  BY <1>2, <1>3, <1>4, SumOfNats
<1> QED
  BY <1>1, <1>2, <1>3, <1>5

LEMMA UnloggedTurns ==
    ASSUME StagingTypeOK, NEW c \in Users, NEW q \in Reqs, req' = [req EXCEPT ![c] = q]
    PROVE  SumFunction(Unlogged') = SumFunction(Unlogged) - ToLog(req[c]) + ToLog(q)
<1>1. req \in [Users -> Reqs] /\ IsFiniteSet(Users)
  BY StagingFacts
<1>2. \A d \in Users : req[d] \in Reqs /\ req'[d] \in Reqs
  BY <1>1
<1>3. \A d \in Users : ToLog(req[d]) \in Int /\ ToLog(req'[d]) \in Int
  BY <1>2, ReqKinds
<1>4. /\ Unlogged \in [Users -> Int] /\ Unlogged' \in [Users -> Int]
      /\ \A d \in Users : Unlogged[d] = ToLog(req[d]) /\ Unlogged'[d] = ToLog(req'[d])
  BY <1>3 DEF Unlogged, ToLog
<1>5. req'[c] = q /\ \A d \in Users \ {c} : req'[d] = req[d]
  BY <1>1
<1>6. \A d \in Users \ {c} : Unlogged'[d] = Unlogged[d]
  BY <1>4, <1>5
<1>7. SumFunction(Unlogged') = SumFunction(Unlogged) - Unlogged[c] + Unlogged'[c]
  <2> HIDE DEF Unlogged
  <2> QED
    BY <1>1, <1>4, <1>6, SumRowChanged
<1> QED
  BY <1>4, <1>5, <1>7

(* A step that neither logs nor is about to.                               *)
LEMMA LogStays ==
    ASSUME StagingTypeOK, StagingTypeOK', LoggedOrComing,
           NEW c \in Users, NEW q \in Reqs, req' = [req EXCEPT ![c] = q], ToLog(q) = 0,
           importLog' = importLog, Imported \subseteq Imported'
    PROVE  LoggedOrComing'
<1>1. SumFunction(Unlogged') = SumFunction(Unlogged) - ToLog(req[c]) + 0
  BY UnloggedTurns
<1>2. ToLog(req[c]) \in Nat
  BY StagingFacts, ReqKinds
<1>3. Logged' = Logged
  BY DEF Logged
<1>4. Cardinality(Imported) <= Cardinality(Imported')
      /\ Cardinality(Imported) \in Nat /\ Cardinality(Imported') \in Nat
  <2>1. IsFiniteSet(Imported')
    <3>1. Imported' \subseteq Parts
      BY DEF Imported
    <3> QED
      BY <3>1, StagingFacts, FS_Subset
  <2> QED
    BY <2>1, FS_Subset, FS_CardinalityType
<1>5. SumFunction(Logged) \in Nat /\ SumFunction(Unlogged) \in Nat
  BY LogFacts
<1>6. SumFunction(Logged) + SumFunction(Unlogged) <= Cardinality(Imported)
  BY DEF LoggedOrComing
<1>7. SumFunction(Logged') = SumFunction(Logged)
  BY <1>3, Zenon
<1>8. SumFunction(Logged') + SumFunction(Unlogged') <= Cardinality(Imported')
  BY <1>1, <1>2, <1>4, <1>5, <1>6, <1>7
<1> QED
  BY <1>8 DEF LoggedOrComing

(* A step of one request that keeps what it promised and logs nothing.     *)
LEMMA RequestKeeps ==
    ASSUME StagingInv, StagingTypeOK', Grows, NEW c \in Users, NEW q \in Reqs,
           req' = [req EXCEPT ![c] = q], Kept(q, Fitted'), ToLog(q) = 0,
           answered' \subseteq answered \cup Fitted,
           importLog' = importLog, Imported \subseteq Imported'
    PROVE  StagingInv'
<1>1. PromisesKept' /\ FittedAsAnswered'
  BY PromiseTurns DEF StagingInv
<1>2. LoggedOrComing'
  BY LogStays DEF StagingInv
<1> QED
  BY <1>1, <1>2 DEF StagingInv

(* The ways a request begins, goes on or ends.                             *)
Turns(c, q) == BeginRequest(c, q) \/ Continue(c, q) \/ (AtOnce(c) /\ q = Idle)

LEMMA Turned ==
    ASSUME StagingTypeOK, NEW c \in Users, NEW q \in Reqs, Turns(c, q)
    PROVE  /\ req' = [req EXCEPT ![c] = q] /\ req' \in [Users -> Reqs]
           /\ served' \in Nat
BY StagingFacts DEF Turns, BeginRequest, Continue, AtOnce, StagingTypeOK

LEMMA IdleKeeps == Idle \in Reqs /\ ToLog(Idle) = 0 /\ \A fitted : Kept(Idle, fitted)
BY DEF Idle, Reqs, CatalogueReq, ToLog, Kept

LEMMA CatalogueKeeps ==
    ASSUME StagingInv, NEW c \in Users, NEW q \in Reqs, Turns(c, q),
           Kept(q, Fitted'), ToLog(q) = 0,
           parts' \in [Parts -> Part], Imported \subseteq Imported',
           Grows, fitments' \subseteq Parts \X Nat, asked' \subseteq Parts \X Models,
           answered' \subseteq answered \cup Fitted, UNCHANGED stagingVars
    PROVE  StagingInv'
<1>1. StagingTypeOK
  BY DEF StagingInv
<1>2. /\ req' = [req EXCEPT ![c] = q] /\ req' \in [Users -> Reqs] /\ served' \in Nat
  BY <1>1, Turned
<1>3. vehicles' \in Seq(Models)
  <2>1. vehicles \in Seq(Models)
    BY <1>1 DEF StagingTypeOK
  <2>2. ASSUME NEW model \in Models PROVE Append(vehicles, model) \in Seq(Models)
    BY <2>1
  <2> QED
    BY <2>1, <2>2 DEF Grows
<1>4. answered' \subseteq Parts \X Models
  BY <1>1 DEF StagingTypeOK, Fitted
<1>5. StagingTypeOK'
  <2>1. /\ importLog' \in Seq(LogRow)
        /\ pictures' \in [Staged -> {"s3", "moved", "gone"}]
        /\ migration' \in [running : BOOLEAN, batch : SUBSET Staged]
    BY <1>1 DEF StagingTypeOK, stagingVars
  <2> QED
    BY <1>2, <1>3, <1>4, <2>1 DEF StagingTypeOK, Reqs
<1>6. importLog' = importLog
  BY DEF stagingVars
<1> QED
  BY <1>2, <1>5, <1>6, RequestKeeps

(* A request goes on while the tables of the catalogue stay.               *)
LEMMA OnlyRequest ==
    ASSUME StagingInv, NEW c \in Users, NEW q \in Reqs, Turns(c, q),
           Kept(q, Fitted), ToLog(q) = 0,
           UNCHANGED catalogueVars, UNCHANGED stagingVars
    PROVE  StagingInv'
<1>1. Grows /\ Fitted' = Fitted /\ Imported' = Imported
  BY DEF catalogueVars, Grows, Fitted, VehiclesOf, Fits, Imported
<1>2. /\ parts' \in [Parts -> Part] /\ fitments' \subseteq Parts \X Nat
      /\ asked' \subseteq Parts \X Models /\ answered' \subseteq answered \cup Fitted
  BY DEF catalogueVars, StagingInv, StagingTypeOK
<1>3. Kept(q, Fitted') /\ Imported \subseteq Imported'
  BY <1>1
<1> QED
  BY <1>1, <1>2, <1>3, CatalogueKeeps

-----------------------------------------------------------------------------
(* The fitting of rows.                                                    *)
LEMMA FitRowKeeps ==
    ASSUME StagingInv, NEW c \in Users, FitRow(c), UNCHANGED stagingVars
    PROVE  StagingInv'
<1>1. PICK p \in req[c].todo, i \in VehiclesOf(req[c].model) :
         /\ fitments' = fitments \cup {<<p, i>>}
         /\ Continue(c, [req[c] EXCEPT !.todo = @ \ {p}])
  BY DEF FitRow
<1> DEFINE q == [req[c] EXCEPT !.todo = @ \ {p}]
<1>2. /\ StagingTypeOK /\ req[c] \in Reqs /\ req[c].op = "fit"
      /\ UNCHANGED <<parts, vehicles, asked, answered>>
  BY StagingFacts DEF StagingInv, FitRow
<1>3. req[c].todo \in SUBSET Parts /\ req[c].promise \in SUBSET Parts /\ req[c].model \in Models
  BY <1>2, ReqKinds
<1>4. /\ q \in Reqs /\ q.op = "fit" /\ q.todo = req[c].todo \ {p}
      /\ q.promise = req[c].promise /\ q.model = req[c].model
  BY <1>2 DEF Reqs, CatalogueReq, StagingReq, Idle
<1> HIDE DEF q
<1>5. Grows /\ Imported' = Imported
  BY <1>1, <1>2 DEF Grows, Imported
<1>6. Kept(req[c], Fitted) /\ Fitted \subseteq Fitted'
  BY <1>5, PromisesOf, FittedGrows DEF StagingInv
<1>7. <<p, req[c].model>> \in Fitted'
  BY <1>1, <1>2, <1>3 DEF Fitted, VehiclesOf, Fits
<1>8. Kept(q, Fitted')
  BY <1>2, <1>4, <1>6, <1>7 DEF Kept
<1>9. ToLog(q) = 0 /\ Turns(c, q)
  BY <1>1, <1>4 DEF ToLog, Turns, q
<1>10. /\ parts' \in [Parts -> Part] /\ asked' \subseteq Parts \X Models
       /\ fitments' \subseteq Parts \X Nat
  <2>1. i \in Nat
    BY <1>2, StagingFacts DEF VehiclesOf
  <2> QED
    BY <1>1, <1>2, <1>3, <2>1 DEF StagingTypeOK
<1>11. Imported \subseteq Imported' /\ answered' \subseteq answered \cup Fitted
  BY <1>2, <1>5
<1> QED
  BY <1>4, <1>5, <1>8, <1>9, <1>10, <1>11, CatalogueKeeps

LEMMA MissVehicleKeeps ==
    ASSUME StagingInv, NEW c \in Users, MissVehicle(c), UNCHANGED stagingVars
    PROVE  StagingInv'
<1>1. PICK p \in req[c].todo :
         Continue(c, [op |-> "newVehicle", todo |-> req[c].todo, part |-> p,
                      model |-> req[c].model, promise |-> req[c].promise])
  BY DEF MissVehicle
<1> DEFINE q == [op |-> "newVehicle", todo |-> req[c].todo, part |-> p,
                 model |-> req[c].model, promise |-> req[c].promise]
<1>2. StagingTypeOK /\ req[c] \in Reqs /\ req[c].op = "fit" /\ UNCHANGED catalogueVars
  BY StagingFacts DEF StagingInv, MissVehicle
<1>3. req[c].todo \in SUBSET Parts /\ req[c].promise \in SUBSET Parts /\ req[c].model \in Models
  BY <1>2, ReqKinds
<1>4. /\ q \in Reqs /\ q.op = "newVehicle" /\ q.todo = req[c].todo
      /\ q.promise = req[c].promise /\ q.model = req[c].model
  BY <1>3 DEF Reqs, CatalogueReq
<1>5. Continue(c, q)
  BY <1>1
<1> HIDE DEF q
<1>6. Kept(req[c], Fitted)
  BY PromisesOf DEF StagingInv
<1>7. Kept(q, Fitted)
  BY <1>2, <1>4, <1>6 DEF Kept
<1>8. ToLog(q) = 0 /\ Turns(c, q)
  BY <1>4, <1>5 DEF ToLog, Turns
<1> QED
  BY <1>2, <1>4, <1>7, <1>8, OnlyRequest

LEMMA FailRowKeeps ==
    ASSUME StagingInv, NEW c \in Users, FailRow(c), UNCHANGED stagingVars
    PROVE  StagingInv'
<1>1. PICK p \in req[c].todo :
         Continue(c, Fitting(req[c].todo \ {p}, req[c].model, req[c].promise \ {p}))
  BY DEF FailRow
<1> DEFINE q == Fitting(req[c].todo \ {p}, req[c].model, req[c].promise \ {p})
<1>2. /\ StagingTypeOK /\ req[c] \in Reqs /\ req[c].op \in {"fit", "newVehicle"}
      /\ UNCHANGED catalogueVars
  BY StagingFacts DEF StagingInv, FailRow
<1>3. req[c].todo \in SUBSET Parts /\ req[c].promise \in SUBSET Parts /\ req[c].model \in Models
  BY <1>2, ReqKinds
<1>4. /\ q \in Reqs /\ q.op = "fit" /\ q.todo = req[c].todo \ {p}
      /\ q.promise = req[c].promise \ {p} /\ q.model = req[c].model
  BY <1>3 DEF Reqs, CatalogueReq, Fitting
<1>5. Continue(c, q)
  BY <1>1
<1> HIDE DEF q
<1>6. Kept(req[c], Fitted)
  BY PromisesOf DEF StagingInv
<1>7. Kept(q, Fitted)
  BY <1>2, <1>4, <1>6 DEF Kept
<1>8. ToLog(q) = 0 /\ Turns(c, q)
  BY <1>4, <1>5 DEF ToLog, Turns
<1> QED
  BY <1>2, <1>4, <1>7, <1>8, OnlyRequest

LEMMA AddVehicleAndFitKeeps ==
    ASSUME StagingInv, NEW c \in Users, AddVehicleAndFit(c), UNCHANGED stagingVars
    PROVE  StagingInv'
<1>1. /\ StagingTypeOK /\ req[c] \in Reqs /\ vehicles \in Seq(Models) /\ Len(vehicles) \in Nat
      /\ req[c].op = "newVehicle"
  BY StagingFacts DEF StagingInv, StagingTypeOK, AddVehicleAndFit
<1>2. PICK p \in Parts, m \in Models : p = req[c].part /\ m = req[c].model
  BY <1>1, ReqKinds
<1> DEFINE q == Fitting(req[c].todo \ {p}, m, req[c].promise)
<1>3. /\ req[c].todo \in SUBSET Parts /\ req[c].promise \in SUBSET Parts
      /\ vehicles' = Append(vehicles, m)
      /\ fitments' = fitments \cup {<<p, Len(vehicles) + 1>>}
      /\ Continue(c, q) /\ UNCHANGED <<parts, asked, answered>>
  BY <1>1, <1>2, ReqKinds DEF AddVehicleAndFit
<1>4. /\ q \in Reqs /\ q.op = "fit" /\ q.todo = req[c].todo \ {p}
      /\ q.promise = req[c].promise /\ q.model = m
  BY <1>3 DEF Reqs, CatalogueReq, Fitting
<1> HIDE DEF q
<1>5. Grows /\ Imported' = Imported
  BY <1>3 DEF Grows, Imported
<1>6. Kept(req[c], Fitted) /\ Fitted \subseteq Fitted'
  BY <1>1, <1>5, PromisesOf, FittedGrows DEF StagingInv
<1>7. <<p, m>> \in Fitted'
  <2>1. Len(vehicles) + 1 \in DOMAIN vehicles' /\ vehicles'[Len(vehicles) + 1] = m
    BY <1>1, <1>3
  <2>2. /\ Len(vehicles) + 1 \in {i \in DOMAIN vehicles' : vehicles'[i] = m}
        /\ <<p, Len(vehicles) + 1>> \in fitments'
    BY <1>3, <2>1
  <2> QED
    BY <2>2 DEF Fitted, VehiclesOf, Fits
<1>8. Kept(q, Fitted')
  BY <1>1, <1>2, <1>4, <1>6, <1>7 DEF Kept
<1>9. ToLog(q) = 0 /\ Turns(c, q)
  BY <1>3, <1>4 DEF ToLog, Turns
<1>10. /\ parts' \in [Parts -> Part] /\ asked' \subseteq Parts \X Models
       /\ fitments' \subseteq Parts \X Nat
  BY <1>1, <1>2, <1>3 DEF StagingTypeOK
<1>11. Imported \subseteq Imported' /\ answered' \subseteq answered \cup Fitted
  BY <1>3, <1>5
<1> QED
  BY <1>4, <1>5, <1>8, <1>9, <1>10, <1>11, CatalogueKeeps

LEMMA AnswerFittingKeeps ==
    ASSUME StagingInv, NEW c \in Users, AnswerFitting(c), UNCHANGED stagingVars
    PROVE  StagingInv'
<1>1. /\ req[c].op = "fit" /\ req[c].todo = {}
      /\ answered' = answered \cup (req[c].promise \X {req[c].model})
      /\ Turns(c, Idle) /\ UNCHANGED <<parts, vehicles, fitments, asked>>
  BY DEF AnswerFitting, End, Turns
<1>2. StagingTypeOK /\ Kept(req[c], Fitted)
  BY PromisesOf DEF StagingInv
<1>3. answered' \subseteq answered \cup Fitted
  <2>1. \A p \in req[c].promise : <<p, req[c].model>> \in Fitted
    BY <1>1, <1>2 DEF Kept
  <2> HIDE DEF Fitted
  <2> QED
    BY <1>1, <2>1
<1>4. /\ Grows /\ Imported \subseteq Imported'
      /\ parts' \in [Parts -> Part] /\ asked' \subseteq Parts \X Models
      /\ fitments' \subseteq Parts \X Nat
  BY <1>1, <1>2 DEF Grows, Imported, StagingTypeOK
<1> QED
  BY <1>1, <1>3, <1>4, IdleKeeps, CatalogueKeeps

(* Parts that come to be known, and rows that name a vehicle.              *)
LEMMA CreatedParts ==
    ASSUME StagingTypeOK, NEW new, NEW status \in Status, Created(new, status)
    PROVE  /\ parts' \in [Parts -> Part]
           /\ Imported' = Imported \cup (new \cap Missing)
           /\ Imported \cap (new \cap Missing) = {}
<1> DEFINE row == [status |-> status, source |-> "SUPPLIER_IMPORT"]
<1>1. /\ parts' = [p \in Parts |-> IF p \in new /\ ~Known(p) THEN row ELSE parts[p]]
      /\ row \in Part /\ row.source = "SUPPLIER_IMPORT"
  BY DEF Created, Part, Source
<1> HIDE DEF row
<1>2. parts \in [Parts -> Part] /\ NoPart.source = "none"
  BY DEF StagingTypeOK, NoPart
<1>3. parts' \in [Parts -> Part]
  BY <1>1, <1>2
<1>4. ASSUME NEW p \in Parts
      PROVE  /\ p \in Imported' <=> p \in Imported \cup (new \cap Missing)
             /\ p \notin Imported \cap (new \cap Missing)
  BY <1>1, <1>2 DEF Imported, Missing, Known
<1>5. Imported \subseteq Parts /\ Imported' \subseteq Parts /\ Missing \subseteq Parts
  BY DEF Imported, Missing
<1> HIDE DEF Imported, Missing
<1> QED
  BY <1>3, <1>4, <1>5

(* A promise of rows of which those with a number are yet to be fitted.    *)
LEMMA NewFitting ==
    ASSUME NEW rows \in SUBSET Parts, NEW todo \in SUBSET Parts, NEW model \in Models,
           rows \ Unnumbered \subseteq todo
    PROVE  /\ Fitting(todo, model, rows) \in Reqs /\ ToLog(Fitting(todo, model, rows)) = 0
           /\ Kept(Fitting(todo, model, rows), Fitted')
<1> DEFINE q == Fitting(todo, model, rows)
<1>1. /\ q.op = "fit" /\ q.todo = todo /\ q.promise = rows /\ q.model = model
      /\ q \in Reqs
  BY DEF Fitting, Reqs, CatalogueReq
<1> HIDE DEF q
<1>2. \A p \in rows \ todo : <<p, model>> \in Fitted'
  BY DEF Fitted
<1>3. Kept(q, Fitted') /\ ToLog(q) = 0
  BY <1>1, <1>2 DEF Kept, ToLog
<1> QED
  BY <1>1, <1>3 DEF q

LEMMA BeginImportKeeps ==
    ASSUME StagingInv, NEW c \in Users, BeginImport(c), UNCHANGED stagingVars
    PROVE  StagingInv'
<1>1. PICK new \in SUBSET Parts, model \in Models \cup {NoModel}, updates \in BOOLEAN :
         /\ BeginRequest(c, [op |-> "import", new |-> new, model |-> model,
                             updates |-> updates])
         /\ UNCHANGED catalogueVars
  <2>1. \A rows : rows \cap Missing \in SUBSET Parts
    BY DEF Missing
  <2> HIDE DEF Missing
  <2> QED
    BY <2>1, Zenon DEF BeginImport
<1> DEFINE q == [op |-> "import", new |-> new, model |-> model, updates |-> updates]
<1>2. q \in Reqs /\ q.op = "import"
  BY DEF Reqs, CatalogueReq
<1>3. BeginRequest(c, q)
  BY <1>1
<1> HIDE DEF q
<1>4. Turns(c, q) /\ Kept(q, Fitted) /\ ToLog(q) = 0
  BY <1>2, <1>3 DEF Turns, Kept, ToLog
<1> QED
  BY <1>1, <1>2, <1>4, OnlyRequest

LEMMA CreatePartsKeeps ==
    ASSUME StagingInv, NEW c \in Users, CreateParts(c), UNCHANGED stagingVars
    PROVE  StagingInv'
<1>1. StagingTypeOK /\ req[c] \in Reqs /\ req[c].op = "import"
  BY StagingFacts DEF StagingInv, CreateParts
<1>2. PICK new \in SUBSET Parts, model \in Models \cup {NoModel} :
         new = req[c].new /\ model = req[c].model
  BY <1>1, ReqKinds
<1>3. /\ Created(new, "VERIFIED")
      /\ \/ Continue(c, Idle)
         \/ model # NoModel /\ Continue(c, Fitting(new \ Unnumbered, model, new))
      /\ UNCHANGED <<vehicles, fitments, asked, answered>>
  BY <1>2 DEF CreateParts, End, FitmentRows
<1>4. PICK q \in Reqs : Turns(c, q) /\ ToLog(q) = 0 /\ Kept(q, Fitted')
  BY <1>3, IdleKeeps, NewFitting DEF Turns
<1>5. parts' \in [Parts -> Part] /\ Imported \subseteq Imported'
  BY <1>1, <1>3, CreatedParts DEF Status
<1>6. /\ Grows /\ asked' \subseteq Parts \X Models
      /\ fitments' \subseteq Parts \X Nat /\ answered' \subseteq answered \cup Fitted
  BY <1>1, <1>3 DEF Grows, StagingTypeOK
<1> QED
  BY <1>4, <1>5, <1>6, CatalogueKeeps

LEMMA ContributeKeeps ==
    ASSUME StagingInv, NEW c \in Users, Contribute(c), UNCHANGED stagingVars
    PROVE  StagingInv'
<1> DEFINE row == [status |-> "PENDING", source |-> "CONTRIBUTED"]
<1>1. PICK p \in Missing, model \in Models \cup {NoModel} :
         /\ parts' = [parts EXCEPT ![p] = row]
         /\ IF model = NoModel THEN AtOnce(c) ELSE BeginRequest(c, Fitting({p}, model, {p}))
         /\ UNCHANGED <<vehicles, fitments, asked, answered>>
  BY DEF Contribute, Fresh
<1>2. /\ p \in Parts /\ parts[p] = NoPart /\ NoPart.source = "none"
      /\ row \in Part /\ row.source = "CONTRIBUTED"
      /\ StagingTypeOK /\ parts \in [Parts -> Part]
  BY DEF Missing, Known, NoPart, Part, Status, Source, StagingInv, StagingTypeOK
<1> HIDE DEF row
<1>3. PICK q \in Reqs : Turns(c, q) /\ ToLog(q) = 0 /\ Kept(q, Fitted')
  <2>1. {p} \in SUBSET Parts
    BY <1>2
  <2> QED
    BY <1>1, <2>1, IdleKeeps, NewFitting DEF Turns
<1>4. parts' \in [Parts -> Part] /\ Imported \subseteq Imported'
  BY <1>1, <1>2 DEF Imported
<1>5. /\ Grows /\ asked' \subseteq Parts \X Models
      /\ fitments' \subseteq Parts \X Nat /\ answered' \subseteq answered \cup Fitted
  BY <1>1, <1>2 DEF Grows, StagingTypeOK
<1> QED
  BY <1>3, <1>4, <1>5, CatalogueKeeps

LEMMA ReviewKeeps ==
    ASSUME StagingInv, NEW c \in Users, NEW status \in Status, Review(c, status),
           UNCHANGED stagingVars
    PROVE  StagingInv'
<1>1. PICK p \in Parts :
         /\ AtOnce(c)
         /\ parts' = [parts EXCEPT ![p].status = status]
         /\ UNCHANGED <<vehicles, fitments, asked, answered>>
  BY DEF Review
<1>2. StagingTypeOK /\ parts \in [Parts -> Part]
  BY DEF StagingInv, StagingTypeOK
<1> DEFINE row == [parts[p] EXCEPT !.status = status]
<1>3. /\ parts' = [parts EXCEPT ![p] = row]
      /\ row \in Part /\ row.source = parts[p].source
  BY <1>1, <1>2 DEF Part
<1> HIDE DEF row
<1>4. parts' \in [Parts -> Part] /\ Imported \subseteq Imported'
  BY <1>2, <1>3 DEF Imported
<1>5. /\ Grows /\ asked' \subseteq Parts \X Models
      /\ fitments' \subseteq Parts \X Nat /\ answered' \subseteq answered \cup Fitted
  BY <1>1, <1>2 DEF Grows, StagingTypeOK
<1>6. Turns(c, Idle)
  BY <1>1 DEF Turns
<1> QED
  BY <1>4, <1>5, <1>6, IdleKeeps, CatalogueKeeps

(* A vehicle or a fitment is added, or a fit is asked for.                 *)
LEMMA RowsAddedKeep ==
    ASSUME StagingInv, NEW c \in Users,
           AddVehicle(c) \/ AddFitment(c) \/ BulkFitments(c) \/ CommitAsk(c),
           UNCHANGED stagingVars
    PROVE  StagingInv'
<1>1. StagingTypeOK /\ req[c] \in Reqs
      /\ DOMAIN vehicles \subseteq Nat
  BY StagingFacts DEF StagingInv
<1>2. Turns(c, Idle) /\ parts' = parts /\ answered' = answered
  BY DEF AddVehicle, AddFitment, BulkFitments, CommitAsk, End, Turns
<1>3. Grows
  BY DEF AddVehicle, AddFitment, BulkFitments, CommitAsk, Grows
<1>4. fitments' \subseteq Parts \X Nat
  <2>1. fitments \subseteq Parts \X Nat
    BY <1>1 DEF StagingTypeOK
  <2>2. CASE AddVehicle(c) \/ CommitAsk(c)
    BY <2>1, <2>2 DEF AddVehicle, CommitAsk
  <2>3. CASE AddFitment(c)
    BY <1>1, <2>1, <2>3 DEF AddFitment
  <2>4. CASE BulkFitments(c)
    <3>1. PICK rows \in SUBSET (Parts \X (1..MaxVehicles)) :
             fitments' = fitments \cup {r \in rows : Known(r[1]) /\ r[2] \in DOMAIN vehicles}
      BY <2>4 DEF BulkFitments
    <3>2. rows \subseteq Parts \X Nat
      OBVIOUS
    <3> QED
      BY <2>1, <3>1, <3>2
  <2> QED
    BY <2>2, <2>3, <2>4
<1>5. asked' \subseteq Parts \X Models
  <2>1. asked \subseteq Parts \X Models
    BY <1>1 DEF StagingTypeOK
  <2>2. CASE CommitAsk(c)
    BY <1>1, <2>1, <2>2, ReqKinds DEF CommitAsk
  <2> QED
    BY <2>1, <2>2 DEF AddVehicle, AddFitment, BulkFitments
<1>6. /\ parts' \in [Parts -> Part] /\ Imported \subseteq Imported'
      /\ answered' \subseteq answered \cup Fitted
  BY <1>1, <1>2 DEF Imported, StagingTypeOK
<1> QED
  BY <1>2, <1>3, <1>4, <1>5, <1>6, IdleKeeps, CatalogueKeeps

LEMMA BeginAskKeeps ==
    ASSUME StagingInv, NEW c \in Users, BeginAsk(c), UNCHANGED stagingVars
    PROVE  StagingInv'
<1>1. PICK p \in Parts, model \in Models :
         /\ BeginRequest(c, [op |-> "ask", part |-> p, model |-> model])
         /\ UNCHANGED catalogueVars
  BY DEF BeginAsk
<1> DEFINE q == [op |-> "ask", part |-> p, model |-> model]
<1>2. q \in Reqs /\ q.op = "ask"
  BY DEF Reqs, CatalogueReq
<1>3. BeginRequest(c, q)
  BY <1>1
<1> HIDE DEF q
<1>4. Turns(c, q) /\ Kept(q, Fitted) /\ ToLog(q) = 0
  BY <1>2, <1>3 DEF Turns, Kept, ToLog
<1> QED
  BY <1>1, <1>2, <1>4, OnlyRequest

LEMMA DieKeeps ==
    ASSUME StagingInv, NEW c \in Users, Die(c), UNCHANGED stagingVars
    PROVE  StagingInv'
<1>1. Turns(c, Idle) /\ UNCHANGED catalogueVars
  BY DEF Die, End, Turns
<1> QED
  BY <1>1, IdleKeeps, OnlyRequest

LEMMA CatalogueStepKeeps ==
    ASSUME StagingInv, CatalogueStep, UNCHANGED stagingVars
    PROVE  StagingInv'
<1>1. {"VERIFIED", "INACTIVE"} \subseteq Status
  BY DEF Status
<1>2. ASSUME NEW c \in Users, Approve(c) \/ RejectPart(c)
      PROVE  StagingInv'
  BY <1>1, <1>2, ReviewKeeps DEF Approve, RejectPart
<1> QED
  BY <1>2, FitRowKeeps, MissVehicleKeeps, AddVehicleAndFitKeeps, FailRowKeeps,
     AnswerFittingKeeps, BeginImportKeeps, CreatePartsKeeps, ContributeKeeps,
     RowsAddedKeep, BeginAskKeeps, DieKeeps DEF CatalogueStep

-----------------------------------------------------------------------------
(* The import from the staging table.                                      *)
LEMMA BeginStagedKeeps ==
    ASSUME StagingInv, NEW c \in Users, BeginStaged(c)
    PROVE  StagingInv'
<1>1. PICK rows \in SUBSET Staged :
         /\ BeginRequest(c, [op |-> "staged", rows |-> rows])
         /\ UNCHANGED <<catalogueVars, stagingVars>>
  BY DEF BeginStaged
<1> DEFINE q == [op |-> "staged", rows |-> rows]
<1>2. q \in Reqs /\ q.op = "staged"
  BY DEF Reqs, StagingReq
<1>3. BeginRequest(c, q)
  BY <1>1
<1> HIDE DEF q
<1>4. Turns(c, q) /\ Kept(q, Fitted) /\ ToLog(q) = 0
  BY <1>2, <1>3 DEF Turns, Kept, ToLog
<1> QED
  BY <1>1, <1>2, <1>4, OnlyRequest

(* The rows that are created are counted once, and nobody else's.          *)
LEMMA CreateStagedKeeps ==
    ASSUME StagingInv, NEW c \in Users, CreateStaged(c)
    PROVE  StagingInv'
<1>1. StagingTypeOK /\ req[c] \in Reqs /\ req[c].op = "staged"
  BY StagingFacts DEF StagingInv, CreateStaged
<1>2. PICK rows \in SUBSET Staged : rows = req[c].rows
  BY <1>1, ReqKinds
<1> DEFINE new == rows \cap Missing
           count == Cardinality(new)
           q == [op |-> "log", inserted |-> count]
<1>3. /\ Created(rows, "PENDING") /\ Continue(c, q)
      /\ UNCHANGED <<vehicles, fitments, asked, answered, stagingVars>>
  BY <1>2 DEF CreateStaged, Inserted
<1>4. /\ parts' \in [Parts -> Part]
      /\ Imported' = Imported \cup new /\ Imported \cap new = {}
  BY <1>1, <1>3, CreatedParts DEF Status
<1>5. IsFiniteSet(new) /\ count \in Nat /\ IsFiniteSet(Imported)
  <2>1. new \subseteq Parts
    BY DEF Missing
  <2> QED
    BY <1>1, <2>1, StagingFacts, LogFacts, FS_Subset, FS_CardinalityType
<1> HIDE DEF new
<1>6. Cardinality(Imported') = Cardinality(Imported) + count
  <2>1. Cardinality(Imported \cup new) =
          Cardinality(Imported) + Cardinality(new) - Cardinality(Imported \cap new)
    BY <1>5, FS_Union
  <2>2. Cardinality(Imported \cap new) = 0
    BY <1>4, FS_EmptySet
  <2>3. Cardinality(Imported) \in Nat
    BY <1>1, LogFacts
  <2>4. Cardinality(Imported') = Cardinality(Imported \cup new)
    BY <1>4, Zenon
  <2> QED
    BY <1>5, <2>1, <2>2, <2>3, <2>4
<1> HIDE DEF count
<1>7. q \in Reqs /\ q.op = "log" /\ q.inserted = count
  BY <1>5 DEF Reqs, StagingReq
<1> HIDE DEF q
<1>8. ToLog(q) = count /\ ToLog(req[c]) = 0 /\ Turns(c, q) /\ Kept(q, Fitted')
  BY <1>1, <1>3, <1>7 DEF ToLog, Turns, Kept
<1>9. /\ req' = [req EXCEPT ![c] = q] /\ req' \in [Users -> Reqs] /\ served' \in Nat
  BY <1>1, <1>7, <1>8, Turned
<1>10. StagingTypeOK'
  BY <1>1, <1>3, <1>4, <1>9 DEF StagingTypeOK, Reqs, stagingVars
<1>11. PromisesKept' /\ FittedAsAnswered'
  <2>1. Grows /\ answered' \subseteq answered \cup Fitted
    BY <1>3 DEF Grows
  <2> QED
    BY <1>1, <1>8, <1>9, <1>10, <2>1, PromiseTurns DEF StagingInv
<1>12. LoggedOrComing'
  <2>1. SumFunction(Unlogged') = SumFunction(Unlogged) - 0 + count
    BY <1>1, <1>7, <1>8, <1>9, UnloggedTurns
  <2>2. SumFunction(Logged') = SumFunction(Logged)
    <3>1. Logged' = Logged
      BY <1>3 DEF Logged, stagingVars
    <3> QED
      BY <3>1, Zenon
  <2>3. /\ SumFunction(Logged) \in Nat /\ SumFunction(Unlogged) \in Nat
        /\ Cardinality(Imported) \in Nat
    BY <1>1, LogFacts
  <2>4. SumFunction(Logged) + SumFunction(Unlogged) <= Cardinality(Imported)
    BY DEF StagingInv, LoggedOrComing
  <2>5. SumFunction(Logged') + SumFunction(Unlogged') <= Cardinality(Imported')
    BY <1>5, <1>6, <2>1, <2>2, <2>3, <2>4
  <2> QED
    BY <2>5 DEF LoggedOrComing
<1> QED
  BY <1>10, <1>11, <1>12 DEF StagingInv

LEMMA LogImportKeeps ==
    ASSUME StagingInv, NEW c \in Users, LogImport(c)
    PROVE  StagingInv'
<1>1. StagingTypeOK /\ req[c] \in Reqs /\ req[c].op = "log"
  BY StagingFacts DEF StagingInv, LogImport
<1>2. PICK count \in Nat : count = req[c].inserted
  BY <1>1, ReqKinds
<1> DEFINE row == [inserted |-> count, today |-> TRUE, just |-> TRUE]
<1>3. /\ importLog' = Append(importLog, row)
      /\ Turns(c, Idle) /\ UNCHANGED <<catalogueVars, pictures, migration>>
  BY <1>2 DEF LogImport, End, Turns
<1>4. row \in LogRow /\ row.inserted = count
  BY DEF LogRow
<1> HIDE DEF row
<1>5. /\ importLog \in Seq(LogRow) /\ importLog' \in Seq(LogRow)
      /\ Len(importLog) \in Nat /\ Len(importLog') = Len(importLog) + 1
      /\ importLog'[Len(importLog) + 1] = row
      /\ \A i \in 1..Len(importLog) : importLog'[i] = importLog[i]
      /\ DOMAIN importLog' = 1..(Len(importLog) + 1) /\ DOMAIN importLog = 1..Len(importLog)
  BY <1>1, <1>3, <1>4 DEF StagingTypeOK
<1>6. /\ req' = [req EXCEPT ![c] = Idle] /\ req' \in [Users -> Reqs] /\ served' \in Nat
  BY <1>1, <1>3, IdleKeeps, Turned
<1>7. StagingTypeOK'
  BY <1>1, <1>3, <1>5, <1>6 DEF StagingTypeOK, Reqs, catalogueVars
<1>8. PromisesKept' /\ FittedAsAnswered'
  <2>1. Grows /\ answered' \subseteq answered \cup Fitted /\ Kept(Idle, Fitted')
    BY <1>3, IdleKeeps DEF Grows, catalogueVars
  <2> QED
    BY <1>1, <1>6, <1>7, <2>1, PromiseTurns DEF StagingInv
<1>9. LoggedOrComing'
  <2>1. SumFunction(Unlogged') = SumFunction(Unlogged) - count + 0
    <3>1. ToLog(req[c]) = count /\ ToLog(Idle) = 0 /\ Idle \in Reqs
      BY <1>1, <1>2, IdleKeeps DEF ToLog
    <3> QED
      BY <1>1, <1>6, <3>1, UnloggedTurns
  <2>2. SumFunction(Logged') = SumFunction(Logged) + count
    <3> DEFINE n == Len(importLog)
    <3>1. /\ Logged \in [1..n -> Int] /\ Logged' \in [1..(n + 1) -> Int]
          /\ Logged'[n + 1] = count
          /\ \A i \in 1..n : Logged'[i] = Logged[i]
      <4>1. /\ Logged = [i \in 1..n |-> importLog[i].inserted]
            /\ Logged' = [i \in 1..(n + 1) |-> importLog'[i].inserted]
        BY <1>5 DEF Logged
      <4>2. /\ \A i \in 1..n : importLog[i].inserted \in Int
            /\ \A i \in 1..(n + 1) : importLog'[i].inserted \in Int
        <5>1. /\ \A i \in 1..n : importLog[i] \in LogRow
              /\ \A i \in 1..(n + 1) : importLog'[i] \in LogRow
          BY <1>5
        <5>2. \A entry \in LogRow : entry.inserted \in Int
          BY DEF LogRow
        <5> QED
          BY <5>1, <5>2
      <4>3. n + 1 \in 1..(n + 1) /\ 1..n \subseteq 1..(n + 1)
        BY <1>5
      <4> HIDE DEF n, Logged
      <4>4. \A i \in 1..n : Logged'[i] = Logged[i]
        BY <1>5, <4>1, <4>3 DEF n
      <4>5. Logged'[n + 1] = count
        BY <1>4, <1>5, <4>1, <4>3 DEF n
      <4> QED
        BY <4>1, <4>2, <4>4, <4>5
    <3>2. n \in Nat
      BY <1>5
    <3> HIDE DEF n, Logged
    <3> QED
      BY <3>1, <3>2, SumRowAppended
  <2>3. /\ SumFunction(Logged) \in Nat /\ SumFunction(Unlogged) \in Nat
        /\ Cardinality(Imported) \in Nat
    BY <1>1, LogFacts
  <2>4. SumFunction(Logged) + SumFunction(Unlogged) <= Cardinality(Imported)
    BY DEF StagingInv, LoggedOrComing
  <2>5. Cardinality(Imported') = Cardinality(Imported)
    BY <1>3 DEF catalogueVars, Imported
  <2>6. SumFunction(Logged') + SumFunction(Unlogged') <= Cardinality(Imported')
    BY <2>1, <2>2, <2>3, <2>4, <2>5
  <2> QED
    BY <2>6 DEF LoggedOrComing
<1> QED
  BY <1>7, <1>8, <1>9 DEF StagingInv

(* Steps that leave the requests and the catalogue alone.                  *)
LEMMA BesideRequests ==
    ASSUME StagingInv, UNCHANGED <<catalogueVars, req, served>>,
           importLog' \in Seq(LogRow), Logged' = Logged,
           pictures' \in [Staged -> {"s3", "moved", "gone"}],
           migration' \in [running : BOOLEAN, batch : SUBSET Staged]
    PROVE  StagingInv'
<1>1. StagingTypeOK'
  BY DEF StagingInv, StagingTypeOK, catalogueVars
<1>2. PromisesKept' /\ FittedAsAnswered'
  BY DEF StagingInv, PromisesKept, FittedAsAnswered, VehiclesOf, Fits, catalogueVars
<1>3. LoggedOrComing'
  <2>1. Unlogged' = Unlogged /\ Imported' = Imported
    BY DEF Unlogged, Imported, catalogueVars
  <2> HIDE DEF Logged, Unlogged, Imported
  <2> QED
    BY <2>1 DEF StagingInv, LoggedOrComing
<1> QED
  BY <1>1, <1>2, <1>3 DEF StagingInv

LEMMA TimePassesKeeps ==
    ASSUME StagingInv, TimePasses
    PROVE  StagingInv'
<1>1. /\ UNCHANGED <<catalogueVars, req, served, pictures, migration>>
      /\ \/ importLog' = [i \in DOMAIN importLog |-> [importLog[i] EXCEPT !.just = FALSE]]
         \/ importLog' = [i \in DOMAIN importLog |-> [importLog[i] EXCEPT !.today = FALSE]]
  BY DEF TimePasses
<1>2. /\ DOMAIN importLog = 1..Len(importLog) /\ Len(importLog) \in Nat
      /\ \A i \in 1..Len(importLog) : importLog[i] \in LogRow
  BY StagingFacts DEF StagingInv
<1>3. DOMAIN importLog' = 1..Len(importLog)
      /\ importLog' = [i \in 1..Len(importLog) |-> importLog'[i]]
  BY <1>1, <1>2
<1>4. \A i \in 1..Len(importLog) :
         importLog'[i] \in LogRow /\ importLog'[i].inserted = importLog[i].inserted
  <2>1. \A i \in 1..Len(importLog) :
           importLog'[i] \in {[importLog[i] EXCEPT !.just = FALSE],
                              [importLog[i] EXCEPT !.today = FALSE]}
    BY <1>1, <1>2
  <2> QED
    BY <1>2, <2>1 DEF LogRow
<1>5. importLog' \in Seq(LogRow)
  <2>1. importLog' \in [1..Len(importLog) -> LogRow]
    BY <1>3, <1>4
  <2> QED
    BY <1>2, <2>1
<1>6. Logged' = Logged
  BY <1>2, <1>3, <1>4 DEF Logged
<1> QED
  BY <1>1, <1>5, <1>6, BesideRequests DEF StagingInv, StagingTypeOK

LEMMA MigrationKeeps ==
    ASSUME StagingInv, StartMigration \/ Migrating \/ BreakMigration
    PROVE  StagingInv'
<1>1. /\ pictures \in [Staged -> {"s3", "moved", "gone"}]
      /\ migration \in [running : BOOLEAN, batch : SUBSET Staged]
      /\ importLog \in Seq(LogRow)
  BY DEF StagingInv, StagingTypeOK
<1>2. UNCHANGED <<catalogueVars, req, served>> /\ importLog' = importLog
  BY DEF StartMigration, Migrating, FetchBatch, MovePicture, FinishMigration, BreakMigration
<1>3. /\ pictures' \in [Staged -> {"s3", "moved", "gone"}]
      /\ migration' \in [running : BOOLEAN, batch : SUBSET Staged]
  <2>1. CASE StartMigration \/ FinishMigration \/ BreakMigration
    <3>1. \A running \in BOOLEAN :
             [running |-> running, batch |-> {}] \in [running : BOOLEAN, batch : SUBSET Staged]
      OBVIOUS
    <3>2. pictures' = pictures
          /\ \E running \in BOOLEAN : migration' = [running |-> running, batch |-> {}]
      BY <2>1 DEF StartMigration, FinishMigration, BreakMigration, Stopped
    <3> QED
      BY <1>1, <3>1, <3>2
  <2>2. CASE FetchBatch
    BY <1>1, <2>2 DEF FetchBatch, AtS3
  <2>3. CASE MovePicture
    BY <1>1, <2>3 DEF MovePicture, AfterFailure
  <2> QED
    BY <2>1, <2>2, <2>3 DEF Migrating
<1>4. Logged' = Logged /\ importLog' \in Seq(LogRow)
  BY <1>1, <1>2 DEF Logged
<1> QED
  BY <1>2, <1>3, <1>4, BesideRequests

-----------------------------------------------------------------------------
LEMMA StagingBegins == StagingInit => StagingInv
<1> SUFFICES ASSUME StagingInit PROVE StagingInv
  OBVIOUS
<1>1. /\ parts = [p \in Parts |-> NoPart] /\ vehicles = <<>> /\ fitments = {}
      /\ asked = {} /\ answered = {} /\ req = [c \in Users |-> Idle] /\ served = 0
      /\ importLog = <<>> /\ pictures = [p \in Staged |-> "s3"]
      /\ migration = [running |-> FALSE, batch |-> {}]
  BY DEF StagingInit, CatalogueInit, Stopped
<1>2. NoPart \in Part /\ Idle \in CatalogueReq \cup StagingReq /\ Idle.op = "idle"
  BY DEF NoPart, Part, Status, Source, Idle, CatalogueReq
<1>3. StagingTypeOK
  BY <1>1, <1>2 DEF StagingTypeOK
<1>4. PromisesKept /\ FittedAsAnswered
  BY <1>1, <1>2 DEF PromisesKept, FittedAsAnswered
<1>5. LoggedOrComing
  <2>1. SumFunction(Logged) = 0
    <3>1. Logged \in [{} -> Int]
      BY <1>1 DEF Logged
    <3>2. \A fun \in [{} -> Int] : SumFunction(fun) = 0
      BY SumOfNone
    <3> QED
      BY <3>1, <3>2
  <2>2. SumFunction(Unlogged) = 0
    <3>1. Unlogged \in [Users -> Int] /\ \A c \in Users : Unlogged[c] = 0
      BY <1>1, <1>2 DEF Unlogged
    <3>2. IsFiniteSet(Users)
      BY CatalogueAssumption
    <3> HIDE DEF Unlogged
    <3> QED
      BY <3>1, <3>2, SumOfZeros
  <2>3. Cardinality(Imported) \in Nat
    BY <1>3, LogFacts
  <2> QED
    BY <2>1, <2>2, <2>3 DEF LoggedOrComing
<1> QED
  BY <1>3, <1>4, <1>5 DEF StagingInv

LEMMA StagingKept == StagingInv /\ [StagingNext]_importVars => StagingInv'
<1> SUFFICES ASSUME StagingInv, [StagingNext]_importVars PROVE StagingInv'
  OBVIOUS
<1>1. CASE UNCHANGED importVars
  <2>1. UNCHANGED <<catalogueVars, req, served>> /\ UNCHANGED <<importLog, pictures, migration>>
    BY <1>1 DEF importVars, stagingVars
  <2>2. Logged' = Logged
    BY <2>1 DEF Logged
  <2> QED
    BY <2>1, <2>2, BesideRequests DEF StagingInv, StagingTypeOK
<1> QED
  BY <1>1, CatalogueStepKeeps, BeginStagedKeeps, CreateStagedKeeps, LogImportKeeps,
     TimePassesKeeps, MigrationKeeps DEF StagingNext

THEOREM StagingCorrect == StagingSpec => []StagingInv
BY StagingBegins, StagingKept, PTL DEF StagingSpec

(* The catalogue, the log and the requests are always of their types.      *)
THEOREM StagingTypes == StagingSpec => []StagingTypeOK
<1>1. StagingInv => StagingTypeOK
  BY DEF StagingInv
<1> QED
  BY <1>1, StagingCorrect, PTL

(* Every new row of an import that has a number, and that its loop met no  *)
(* error of, fits a vehicle of the model it names, whoever created the     *)
(* part or the vehicle in between (admin.js 677-734).                      *)
THEOREM ImportsFitWhatTheyAnswer == StagingSpec => []FittedAsAnswered
<1>1. StagingInv => FittedAsAnswered
  BY DEF StagingInv
<1> QED
  BY <1>1, StagingCorrect, PTL

(* The log of the staged imports never claims more parts than imports      *)
(* created: of two imports that read the same rows each counts only those  *)
(* that its own createMany inserted (admin.js 1184-1204).                  *)
THEOREM LogOverstatesNothing == StagingSpec => []LogNeverOverstates
<1>1. StagingInv => LogNeverOverstates
  <2> SUFFICES ASSUME StagingInv PROVE LogNeverOverstates
    OBVIOUS
  <2>1. /\ SumFunction(Logged) \in Nat /\ SumFunction(Unlogged) \in Nat
        /\ Cardinality(Imported) \in Nat
    BY LogFacts DEF StagingInv
  <2>2. SumFunction(Logged) + SumFunction(Unlogged) <= Cardinality(Imported)
    BY DEF StagingInv, LoggedOrComing
  <2>3. SumFunction(Logged) <= Cardinality(Imported)
    BY <2>1, <2>2
  <2> QED
    BY <2>3 DEF LogNeverOverstates, Logged
<1> QED
  BY <1>1, StagingCorrect, PTL

-----------------------------------------------------------------------------
(* Document numbers.  A transaction that has drawn a number holds the      *)
(* counter's lock, and its number is the next one.                         *)
DrawnUnderLock ==
    \A c \in Clients : \A s \in Series :
        phase[c] \in {"running", "stalled"} /\ drawn[c][s] # 0
        => holder[s] = c /\ drawn[c][s] = last[s] + 1

(* A number drawn outside a transaction is committed.                      *)
DrawnOutside ==
    \A c \in Clients : \A s \in Series :
        phase[c] = "numbered" /\ drawn[c][s] # 0
        => s \in OutsideSeries /\ drawn[c][s] <= last[s]

(* The documents bear committed numbers, and all of them where every       *)
(* number is drawn in the document's transaction.                          *)
DocumentsNumbered ==
    \A s \in Series :
        /\ \A n \in 1..Len(documents[s]) : documents[s][n] <= last[s]
        /\ s \notin OutsideSeries => Len(documents[s]) = last[s]

NumberingInv ==
    /\ TypeOK
    /\ DrawnUnderLock
    /\ DrawnOutside
    /\ DocumentsNumbered
    /\ NumbersUnique

USE DEF Rows, Phases, NoNumbers

-----------------------------------------------------------------------------
LEMMA NumberingInit == Init => NumberingInv
BY SequenceAssumption DEF Init, NumberingInv, TypeOK, DrawnUnderLock,
   DrawnOutside, DocumentsNumbered, NumbersUnique, Numbered

(* The numbers on the documents of a series after one more document.       *)
LEMMA AppendNumber ==
    ASSUME NEW q \in Seq(Nat), NEW n \in Nat
    PROVE  /\ Len(Append(q, n)) = Len(q) + 1
           /\ \A i \in 1..Len(Append(q, n)) :
                \/ i \in 1..Len(q) /\ Append(q, n)[i] = q[i]
                \/ Append(q, n)[i] = n
OBVIOUS

(* A transaction that ends without committing.                             *)
LEMMA RollBackStep ==
    ASSUME NumberingInv, NEW c \in Clients, RollBack(c)
    PROVE  NumberingInv'
<1> USE DEF RollBack, Release
<1>1. TypeOK'
  BY SequenceAssumption DEF NumberingInv, TypeOK
<1>2. DrawnUnderLock'
  BY DEF NumberingInv, TypeOK, DrawnUnderLock
<1>3. DrawnOutside'
  BY DEF NumberingInv, TypeOK, DrawnOutside
<1>4. DocumentsNumbered'
  BY DEF NumberingInv, DocumentsNumbered
<1>5. NumbersUnique'
  BY DEF NumberingInv, TypeOK, NumbersUnique, Numbered
<1> QED BY <1>1, <1>2, <1>3, <1>4, <1>5 DEF NumberingInv

(* What drawing a number changes: one entry of one client.                 *)
LEMMA DrawEffect ==
    ASSUME TypeOK, NEW c \in Clients, NEW s \in Series, Draw(c, s)
    PROVE  /\ drawn' \in [Clients -> [Series -> Nat]]
           /\ \A d \in Clients, t \in Series :
                drawn'[d][t] = IF d = c /\ t = s THEN last[s] + 1 ELSE drawn[d][t]
           /\ \A d \in Clients \ {c} : drawn'[d] = drawn[d]
<1> DEFINE mine == [drawn[c] EXCEPT ![s] = last[s] + 1]
<1>1. mine \in [Series -> Nat]
  BY DEF TypeOK
<1>2. drawn' = [drawn EXCEPT ![c] = mine]
  BY DEF Draw
<1>3. \A t \in Series : mine[t] = IF t = s THEN last[s] + 1 ELSE drawn[c][t]
  BY DEF TypeOK
<1> HIDE DEF mine
<1> QED BY <1>1, <1>2, <1>3 DEF TypeOK

LEMMA LockStep ==
    ASSUME NumberingInv, NEW c \in Clients, Lock(c)
    PROVE  NumberingInv'
<1> DEFINE r == Head(ahead[c])
<1>1. r \in Rows /\ Tail(ahead[c]) \in Seq(Rows)
  BY DEF NumberingInv, TypeOK, Lock
<1>2. /\ phase[c] = "running"
      /\ holder[r] = NoClient
      /\ holder' = [holder EXCEPT ![r] = c]
      /\ ahead' = [ahead EXCEPT ![c] = Tail(@)]
      /\ r \in Series => Draw(c, r)
      /\ r \notin Series => drawn' = drawn
      /\ UNCHANGED <<last, phase, documents>>
  BY DEF Lock, Free
<1> HIDE DEF r
<1>3. \A d \in Clients, s \in Series :
        drawn'[d][s] = IF d = c /\ s = r THEN last[r] + 1 ELSE drawn[d][s]
  BY <1>2, DrawEffect DEF NumberingInv
<1>4. drawn' \in [Clients -> [Series -> Nat]]
  BY <1>2, DrawEffect DEF NumberingInv, TypeOK
<1>5. \A d \in Clients \ {c} : drawn'[d] = drawn[d]
  BY <1>2, DrawEffect DEF NumberingInv
<1>6. TypeOK'
  BY <1>1, <1>2, <1>4, <1>5, SequenceAssumption DEF NumberingInv, TypeOK
<1>7. DrawnUnderLock'
  BY <1>1, <1>2, <1>3, SequenceAssumption DEF NumberingInv, TypeOK, DrawnUnderLock
<1>8. DrawnOutside'
  BY <1>2, <1>3 DEF NumberingInv, DrawnOutside
<1>9. DocumentsNumbered'
  BY <1>2 DEF NumberingInv, DocumentsNumbered
<1>10. ASSUME NEW d \in Clients, NEW s \in Series, drawn[d][s] # 0, s = r
       PROVE  drawn[d][s] <= last[s]
  <2>1. phase[d] # "idle"
    BY <1>10 DEF NumberingInv, TypeOK
  <2>2. phase[d] \notin {"running", "stalled"}
    BY <1>2, <1>10, SequenceAssumption DEF NumberingInv, DrawnUnderLock
  <2> QED BY <2>1, <2>2, <1>10 DEF NumberingInv, TypeOK, DrawnOutside
<1>11. NumbersUnique'
  <2> SUFFICES ASSUME NEW d \in Clients, NEW s \in Series, drawn'[d][s] # 0
               PROVE  /\ \A e \in Clients \ {d} : drawn'[e][s] # drawn'[d][s]
                      /\ \A n \in 1..Len(documents[s]) :
                            documents[s][n] # drawn'[d][s]
    BY <1>2 DEF NumbersUnique, Numbered
  <2>1. \A e \in Clients : last[s] \in Nat /\ drawn[e][s] \in Nat
    BY DEF NumberingInv, TypeOK
  <2>2. \A n \in 1..Len(documents[s]) :
            documents[s][n] <= last[s] /\ documents[s][n] \in Nat
    BY DEF NumberingInv, TypeOK, DocumentsNumbered
  <2>3. CASE s = r
    BY <2>1, <2>2, <2>3, <1>3, <1>10 DEF NumberingInv, NumbersUnique, Numbered
  <2>4. CASE s # r
    BY <2>4, <1>3 DEF NumberingInv, NumbersUnique, Numbered
  <2> QED BY <2>3, <2>4
<1> QED BY <1>6, <1>7, <1>8, <1>9, <1>11 DEF NumberingInv

LEMMA CommitStep ==
    ASSUME NumberingInv, NEW c \in Clients, Commit(c)
    PROVE  NumberingInv'
<1> USE DEF Release, Numbered
<1>1. /\ phase[c] = "running"
      /\ \A s \in Series : drawn[c][s] # 0 =>
            holder[s] = c /\ drawn[c][s] = last[s] + 1
  BY DEF Commit, NumberingInv, DrawnUnderLock
<1>2. \A s \in Series :
        /\ last'[s] = IF drawn[c][s] # 0 THEN last[s] + 1 ELSE last[s]
        /\ documents'[s] = IF drawn[c][s] # 0
                           THEN Append(documents[s], drawn[c][s]) ELSE documents[s]
  BY <1>1 DEF Commit, InsertDocuments
<1>3. /\ phase' = [phase EXCEPT ![c] = "idle"]
      /\ drawn' = [drawn EXCEPT ![c] = NoNumbers]
      /\ ahead' = [ahead EXCEPT ![c] = <<>>]
      /\ holder' = [r \in Rows |-> IF holder[r] = c THEN NoClient ELSE holder[r]]
  BY DEF Commit
<1>4. last' \in [Series -> Nat] /\ documents' \in [Series -> Seq(Nat)]
  BY <1>1 DEF Commit, InsertDocuments, NumberingInv, TypeOK
<1>5. TypeOK'
  BY <1>3, <1>4, SequenceAssumption DEF NumberingInv, TypeOK
<1>6. DrawnUnderLock'
  BY <1>1, <1>2, <1>3 DEF NumberingInv, TypeOK, DrawnUnderLock
<1>7. DrawnOutside'
  <2>1. \A s \in Series : last[s] \in Nat /\ last[s] <= last'[s]
    BY <1>2 DEF NumberingInv, TypeOK
  <2>2. \A d \in Clients, s \in Series :
          phase'[d] = "numbered" /\ drawn'[d][s] # 0
          => /\ phase[d] = "numbered" /\ drawn'[d][s] = drawn[d][s]
             /\ drawn[d][s] \in Nat
    BY <1>3 DEF NumberingInv, TypeOK
  <2> QED BY <2>1, <2>2, <1>4 DEF NumberingInv, DrawnOutside, TypeOK
<1>8. DocumentsNumbered'
  <2> SUFFICES ASSUME NEW s \in Series
               PROVE  /\ \A n \in 1..Len(documents'[s]) : documents'[s][n] <= last'[s]
                      /\ s \notin OutsideSeries => Len(documents'[s]) = last'[s]
    BY DEF DocumentsNumbered
  <2>1. /\ documents[s] \in Seq(Nat) /\ last[s] \in Nat
        /\ drawn[c][s] \in Nat /\ Len(documents[s]) \in Nat
    BY DEF NumberingInv, TypeOK
  <2>2. /\ \A n \in 1..Len(documents[s]) :
              documents[s][n] <= last[s] /\ documents[s][n] \in Nat
        /\ s \notin OutsideSeries => Len(documents[s]) = last[s]
    BY <2>1 DEF NumberingInv, DocumentsNumbered
  <2>3. CASE drawn[c][s] # 0
    <3>1. documents'[s] = Append(documents[s], drawn[c][s]) /\ drawn[c][s] \in Nat
      BY <1>1, <1>2, <2>1, <2>3
    <3>2. /\ Len(documents'[s]) = Len(documents[s]) + 1
          /\ \A n \in 1..Len(documents'[s]) :
               \/ n \in 1..Len(documents[s]) /\ documents'[s][n] = documents[s][n]
               \/ documents'[s][n] = drawn[c][s]
      BY <3>1, <2>1, AppendNumber
    <3>3. drawn[c][s] = last[s] + 1 /\ last'[s] = last[s] + 1
      BY <1>1, <1>2, <2>3
    <3> QED BY <2>1, <2>2, <3>2, <3>3
  <2>4. CASE drawn[c][s] = 0
    BY <1>2, <2>2, <2>4
  <2> QED BY <2>3, <2>4
<1>9. NumbersUnique'
  <2> SUFFICES ASSUME NEW d \in Clients, NEW s \in Series, drawn'[d][s] # 0
               PROVE  /\ \A e \in Clients \ {d} : drawn'[e][s] # drawn'[d][s]
                      /\ \A n \in 1..Len(documents'[s]) :
                            documents'[s][n] # drawn'[d][s]
    BY DEF NumbersUnique
  <2>1. /\ d # c /\ drawn'[d][s] = drawn[d][s] /\ drawn'[c][s] = 0
        /\ \A e \in Clients \ {c} : drawn'[e][s] = drawn[e][s]
    BY <1>3 DEF NumberingInv, TypeOK
  <2>2. /\ \A e \in Clients \ {d} : drawn[e][s] # drawn[d][s]
        /\ \A n \in 1..Len(documents[s]) : documents[s][n] # drawn[d][s]
    BY <2>1 DEF NumberingInv, NumbersUnique
  <2>3. ASSUME drawn[c][s] # 0 PROVE drawn[c][s] # drawn[d][s]
    BY <2>1, <2>2
  <2>4. documents[s] \in Seq(Nat) /\ drawn[c][s] \in Nat /\ Len(documents[s]) \in Nat
    BY DEF NumberingInv, TypeOK
  <2>5. CASE drawn[c][s] # 0
    <3>1. documents'[s] = Append(documents[s], drawn[c][s]) /\ drawn[c][s] \in Nat
      BY <1>1, <1>2, <2>4, <2>5
    <3>2. /\ Len(documents'[s]) = Len(documents[s]) + 1
          /\ \A n \in 1..Len(documents'[s]) :
               \/ n \in 1..Len(documents[s]) /\ documents'[s][n] = documents[s][n]
               \/ documents'[s][n] = drawn[c][s]
      BY <3>1, <2>4, AppendNumber
    <3> QED BY <2>1, <2>2, <2>3, <2>5, <3>2
  <2>6. CASE drawn[c][s] = 0
    BY <1>2, <2>1, <2>2, <2>6
  <2> QED BY <2>5, <2>6
<1> QED BY <1>5, <1>6, <1>7, <1>8, <1>9 DEF NumberingInv

LEMMA BeginStep ==
    ASSUME NumberingInv, NEW c \in Clients, Begin(c)
    PROVE  NumberingInv'
<1> USE DEF Begin
<1>1. TypeOK'
  BY SequenceAssumption DEF NumberingInv, TypeOK
<1>2. DrawnUnderLock'
  BY DEF NumberingInv, TypeOK, DrawnUnderLock
<1>3. DrawnOutside'
  BY DEF NumberingInv, TypeOK, DrawnOutside
<1>4. DocumentsNumbered' /\ NumbersUnique'
  BY DEF NumberingInv, DocumentsNumbered, NumbersUnique, Numbered
<1> QED BY <1>1, <1>2, <1>3, <1>4 DEF NumberingInv

LEMMA StallStep ==
    ASSUME NumberingInv, NEW c \in Clients, Stall(c)
    PROVE  NumberingInv'
<1> USE DEF Stall
<1>1. TypeOK'
  BY SequenceAssumption DEF NumberingInv, TypeOK
<1>2. DrawnUnderLock'
  BY DEF NumberingInv, TypeOK, DrawnUnderLock
<1>3. DrawnOutside'
  BY DEF NumberingInv, TypeOK, DrawnOutside
<1>4. DocumentsNumbered' /\ NumbersUnique'
  BY DEF NumberingInv, DocumentsNumbered, NumbersUnique, Numbered
<1> QED BY <1>1, <1>2, <1>3, <1>4 DEF NumberingInv

LEMMA DrawOutsideStep ==
    ASSUME NumberingInv, NEW c \in Clients, NEW s \in OutsideSeries, DrawOutside(c, s)
    PROVE  NumberingInv'
<1>1. s \in Series
  BY SequenceAssumption
<1>2. /\ phase[c] = "idle" /\ holder[s] = NoClient
      /\ last' = [last EXCEPT ![s] = @ + 1]
      /\ phase' = [phase EXCEPT ![c] = "numbered"]
      /\ UNCHANGED <<holder, ahead, documents>>
  BY DEF DrawOutside, Free
<1>3. /\ drawn' \in [Clients -> [Series -> Nat]]
      /\ \A d \in Clients, t \in Series :
            drawn'[d][t] = IF d = c /\ t = s THEN last[s] + 1 ELSE drawn[d][t]
      /\ \A d \in Clients \ {c} : drawn'[d] = drawn[d]
  BY <1>1, DrawEffect DEF DrawOutside, NumberingInv
<1>4. TypeOK'
  <2>1. ASSUME NEW r \in Rows PROVE holder[r] # c
    <3>1. holder[r] # NoClient => phase[holder[r]] \in {"running", "stalled"}
      BY DEF NumberingInv, TypeOK
    <3>2. c # NoClient
      BY SequenceAssumption
    <3> QED
      BY <1>2, <3>1, <3>2
  <2>2. \A r \in Rows :
          holder'[r] # NoClient => phase'[holder'[r]] \in {"running", "stalled"}
    BY <2>1, <1>2 DEF NumberingInv, TypeOK
  <2>3. \A d \in Clients : phase'[d] = "idle" => drawn'[d] = NoNumbers
    BY <1>2, <1>3 DEF NumberingInv, TypeOK
  <2>4. last' \in [Series -> Nat] /\ phase' \in [Clients -> Phases]
    BY <1>1, <1>2 DEF NumberingInv, TypeOK
  <2> QED BY <2>2, <2>3, <2>4, <1>2, <1>3 DEF NumberingInv, TypeOK
<1>5. drawn[c] = NoNumbers
  BY <1>2 DEF NumberingInv, TypeOK
<1>6. DrawnUnderLock'
  BY <1>1, <1>2, <1>3, SequenceAssumption DEF NumberingInv, TypeOK, DrawnUnderLock
<1>7. DrawnOutside'
  BY <1>1, <1>2, <1>3, <1>5 DEF NumberingInv, TypeOK, DrawnOutside
<1>8. DocumentsNumbered'
  BY <1>1, <1>2 DEF NumberingInv, TypeOK, DocumentsNumbered
<1>9. ASSUME NEW d \in Clients, drawn[d][s] # 0 PROVE drawn[d][s] <= last[s]
  <2>1. phase[d] # "idle"
    BY <1>1, <1>9 DEF NumberingInv, TypeOK
  <2>2. phase[d] \notin {"running", "stalled"}
    BY <1>1, <1>2, <1>9, SequenceAssumption DEF NumberingInv, DrawnUnderLock
  <2> QED BY <1>1, <2>1, <2>2, <1>9 DEF NumberingInv, TypeOK, DrawnOutside
<1>10. NumbersUnique'
  <2> SUFFICES ASSUME NEW d \in Clients, NEW t \in Series, drawn'[d][t] # 0
               PROVE  /\ \A e \in Clients \ {d} : drawn'[e][t] # drawn'[d][t]
                      /\ \A n \in 1..Len(documents[t]) :
                            documents[t][n] # drawn'[d][t]
    BY <1>2 DEF NumbersUnique, Numbered
  <2>1. \A e \in Clients : last[t] \in Nat /\ drawn[e][t] \in Nat
    BY DEF NumberingInv, TypeOK
  <2>2. \A n \in 1..Len(documents[t]) :
            documents[t][n] <= last[t] /\ documents[t][n] \in Nat
    BY DEF NumberingInv, TypeOK, DocumentsNumbered
  <2>3. CASE t = s
    <3>1. \A e \in Clients : drawn[e][t] <= last[t]
      BY <2>1, <2>3, <1>9
    <3>2. CASE d = c
      <4>1. drawn'[d][t] = last[t] + 1
        BY <2>3, <3>2, <1>3
      <4>2. \A e \in Clients \ {d} : drawn'[e][t] = drawn[e][t]
        BY <3>2, <1>3
      <4> QED
        BY <2>1, <2>2, <3>1, <4>1, <4>2
    <3>3. CASE d # c
      <4>1. drawn'[d][t] = drawn[d][t] /\ drawn[d][t] # 0 /\ drawn'[c][t] = last[t] + 1
        BY <2>3, <3>3, <1>3
      <4>2. drawn[d][t] <= last[t]
        BY <3>1
      <4>3. \A e \in Clients \ {d, c} : drawn'[e][t] = drawn[e][t]
        BY <1>3
      <4>4. /\ \A e \in Clients \ {d} : drawn[e][t] # drawn[d][t]
            /\ \A n \in 1..Len(documents[t]) : documents[t][n] # drawn[d][t]
        BY <4>1 DEF NumberingInv, NumbersUnique, Numbered
      <4>5. drawn'[c][t] # drawn'[d][t]
        BY <2>1, <4>1, <4>2
      <4> QED
        BY <4>1, <4>3, <4>4, <4>5
    <3> QED BY <3>2, <3>3
  <2>4. CASE t # s
    BY <2>4, <1>3 DEF NumberingInv, NumbersUnique, Numbered
  <2> QED BY <2>3, <2>4
<1> QED BY <1>4, <1>6, <1>7, <1>8, <1>10 DEF NumberingInv

LEMMA InsertOutsideStep ==
    ASSUME NumberingInv, NEW c \in Clients, InsertOutside(c)
    PROVE  NumberingInv'
<1> USE DEF Release, Numbered
<1>1. /\ phase[c] = "numbered" /\ last' = last
      /\ phase' = [phase EXCEPT ![c] = "idle"]
      /\ drawn' = [drawn EXCEPT ![c] = NoNumbers]
      /\ ahead' = [ahead EXCEPT ![c] = <<>>]
      /\ holder' = [r \in Rows |-> IF holder[r] = c THEN NoClient ELSE holder[r]]
  BY DEF InsertOutside
<1>2. \A s \in Series :
        documents'[s] = IF drawn[c][s] # 0
                        THEN Append(documents[s], drawn[c][s]) ELSE documents[s]
  BY DEF InsertOutside, InsertDocuments
<1>3. documents' \in [Series -> Seq(Nat)]
  BY DEF InsertOutside, InsertDocuments, NumberingInv, TypeOK
<1>4. TypeOK'
  BY <1>1, <1>3, SequenceAssumption DEF NumberingInv, TypeOK
<1>5. DrawnUnderLock'
  BY <1>1 DEF NumberingInv, TypeOK, DrawnUnderLock
<1>6. DrawnOutside'
  BY <1>1 DEF NumberingInv, TypeOK, DrawnOutside
<1>7. DocumentsNumbered'
  <2> SUFFICES ASSUME NEW s \in Series
               PROVE  /\ \A n \in 1..Len(documents'[s]) : documents'[s][n] <= last'[s]
                      /\ s \notin OutsideSeries => Len(documents'[s]) = last'[s]
    BY DEF DocumentsNumbered
  <2>1. /\ documents[s] \in Seq(Nat) /\ last[s] \in Nat
        /\ drawn[c][s] \in Nat /\ Len(documents[s]) \in Nat
    BY DEF NumberingInv, TypeOK
  <2>2. /\ \A n \in 1..Len(documents[s]) :
              documents[s][n] <= last[s] /\ documents[s][n] \in Nat
        /\ s \notin OutsideSeries => Len(documents[s]) = last[s]
    BY <2>1 DEF NumberingInv, DocumentsNumbered
  <2>3. CASE drawn[c][s] # 0
    <3>1. documents'[s] = Append(documents[s], drawn[c][s]) /\ drawn[c][s] \in Nat
      BY <1>1, <1>2, <2>1, <2>3
    <3>2. /\ Len(documents'[s]) = Len(documents[s]) + 1
          /\ \A n \in 1..Len(documents'[s]) :
               \/ n \in 1..Len(documents[s]) /\ documents'[s][n] = documents[s][n]
               \/ documents'[s][n] = drawn[c][s]
      BY <3>1, <2>1, AppendNumber
    <3>3. s \in OutsideSeries /\ drawn[c][s] <= last[s]
      BY <1>1, <2>3 DEF NumberingInv, DrawnOutside
    <3> QED BY <1>1, <2>1, <2>2, <3>2, <3>3
  <2>4. CASE drawn[c][s] = 0
    BY <1>1, <1>2, <2>2, <2>4
  <2> QED BY <2>3, <2>4
<1>8. NumbersUnique'
  <2> SUFFICES ASSUME NEW d \in Clients, NEW s \in Series, drawn'[d][s] # 0
               PROVE  /\ \A e \in Clients \ {d} : drawn'[e][s] # drawn'[d][s]
                      /\ \A n \in 1..Len(documents'[s]) :
                            documents'[s][n] # drawn'[d][s]
    BY DEF NumbersUnique
  <2>1. /\ d # c /\ drawn'[d][s] = drawn[d][s] /\ drawn'[c][s] = 0
        /\ \A e \in Clients \ {c} : drawn'[e][s] = drawn[e][s]
    BY <1>1 DEF NumberingInv, TypeOK
  <2>2. /\ \A e \in Clients \ {d} : drawn[e][s] # drawn[d][s]
        /\ \A n \in 1..Len(documents[s]) : documents[s][n] # drawn[d][s]
    BY <2>1 DEF NumberingInv, NumbersUnique
  <2>3. documents[s] \in Seq(Nat) /\ drawn[c][s] \in Nat /\ Len(documents[s]) \in Nat
    BY DEF NumberingInv, TypeOK
  <2>4. CASE drawn[c][s] # 0
    <3>1. documents'[s] = Append(documents[s], drawn[c][s]) /\ drawn[c][s] \in Nat
      BY <1>1, <1>2, <2>3, <2>4
    <3>2. /\ Len(documents'[s]) = Len(documents[s]) + 1
          /\ \A n \in 1..Len(documents'[s]) :
               \/ n \in 1..Len(documents[s]) /\ documents'[s][n] = documents[s][n]
               \/ documents'[s][n] = drawn[c][s]
      BY <3>1, <2>3, AppendNumber
    <3>3. drawn[c][s] # drawn[d][s]
      BY <2>1, <2>2
    <3> QED BY <2>1, <2>2, <3>2, <3>3
  <2>5. CASE drawn[c][s] = 0
    BY <1>2, <2>1, <2>2, <2>5
  <2> QED BY <2>4, <2>5
<1> QED BY <1>4, <1>5, <1>6, <1>7, <1>8 DEF NumberingInv

LEMMA NumberingStep == NumberingInv /\ [Next]_vars => NumberingInv'
<1> SUFFICES ASSUME NumberingInv, [Next]_vars PROVE NumberingInv'
  OBVIOUS
<1>1. CASE UNCHANGED vars
  BY <1>1 DEF vars, NumberingInv, TypeOK, DrawnUnderLock, DrawnOutside,
     DocumentsNumbered, NumbersUnique, Numbered
<1>2. ASSUME NEW c \in Clients,
             Fail(c) \/ Expire(c) \/ BreakDeadlock(c) \/ AbandonOutside(c)
      PROVE  NumberingInv'
  BY <1>2, RollBackStep DEF Fail, Expire, BreakDeadlock, AbandonOutside
<1>3. ASSUME NEW c \in Clients, NEW s \in OutsideSeries, DrawOutside(c, s)
      PROVE  NumberingInv'
  BY <1>3, DrawOutsideStep
<1> QED BY <1>1, <1>2, <1>3, BeginStep, LockStep, CommitStep, StallStep,
           InsertOutsideStep DEF Next

(* Every reachable state satisfies the inductive invariant.                *)
THEOREM NumberingHolds == Spec => []NumberingInv
BY NumberingInit, NumberingStep, PTL DEF Spec, SafeSpec

(* Type correctness, and that no lock outlives its transaction.            *)
THEOREM SequenceTypeCorrect == Spec => []TypeOK
<1>1. NumberingInv => TypeOK
  BY DEF NumberingInv
<1> QED BY <1>1, NumberingHolds, PTL

(* nextSeq never gives one number to two requests, however many run at     *)
(* once, in a transaction or outside one, and however they end.            *)
THEOREM NumbersNeverShared == Spec => []NumbersUnique
<1>1. NumberingInv => NumbersUnique
  BY DEF NumberingInv
<1> QED BY <1>1, NumberingHolds, PTL

-----------------------------------------------------------------------------
LEMMA PromiseInit == Init => Promise!Init
BY SequenceAssumption DEF Init, Promise!Init, KeptInside

(* A step that inserts the documents of S, each with the next number.      *)
LEMMA PromiseIssue ==
    ASSUME NEW S \in SUBSET KeptInside,
           \A s \in KeptInside :
              documents'[s] = IF s \in S THEN Append(documents[s], Len(documents[s]) + 1)
                              ELSE documents[s]
    PROVE  [Promise!Next]_([s \in KeptInside |-> documents[s]])
<1>1. CASE S = {}
  BY <1>1
<1>2. CASE S # {}
  BY <1>2 DEF Promise!Next, Promise!Issue
<1> QED BY <1>1, <1>2

LEMMA PromiseStep ==
    ASSUME NumberingInv, [Next]_vars
    PROVE  [Promise!Next]_([s \in KeptInside |-> documents[s]])
<1>1. CASE UNCHANGED documents
  BY <1>1
<1>2. ASSUME NEW c \in Clients, Commit(c)
      PROVE  [Promise!Next]_([s \in KeptInside |-> documents[s]])
  <2> DEFINE S == Numbered(c) \cap KeptInside
  <2>1. \A s \in KeptInside : s \in Series /\ s \notin OutsideSeries
    BY SequenceAssumption DEF KeptInside
  <2>2. \A s \in S : drawn[c][s] = last[s] + 1 /\ last[s] = Len(documents[s])
    BY <1>2, <2>1 DEF Commit, NumberingInv, DrawnUnderLock, DocumentsNumbered, Numbered
  <2>3. \A s \in KeptInside :
          documents'[s] = IF s \in S THEN Append(documents[s], Len(documents[s]) + 1)
                          ELSE documents[s]
    BY <1>2, <2>1, <2>2 DEF Commit, InsertDocuments
  <2> HIDE DEF S
  <2>4. S \in SUBSET KeptInside
    BY DEF S
  <2> QED BY <2>3, <2>4, PromiseIssue
<1>3. ASSUME NEW c \in Clients, InsertOutside(c)
      PROVE  [Promise!Next]_([s \in KeptInside |-> documents[s]])
  <2>1. \A s \in KeptInside : s \in Series /\ drawn[c][s] = 0
    BY <1>3, SequenceAssumption
       DEF InsertOutside, KeptInside, NumberingInv, DrawnOutside
  <2>2. \A s \in KeptInside : documents'[s] = documents[s]
    BY <1>3, <2>1 DEF InsertOutside, InsertDocuments, Numbered
  <2> QED BY <2>2
<1>4. ASSUME NEW c \in Clients,
             \/ Begin(c) \/ Lock(c) \/ Fail(c) \/ Stall(c) \/ Expire(c)
             \/ BreakDeadlock(c) \/ AbandonOutside(c)
             \/ \E s \in OutsideSeries : DrawOutside(c, s)
      PROVE  UNCHANGED documents
  BY <1>4 DEF Begin, Lock, Fail, Stall, Expire, BreakDeadlock, AbandonOutside,
     DrawOutside, RollBack
<1> QED BY <1>1, <1>2, <1>3, <1>4 DEF Next, vars

(* The numbering implements the promise, for whatever series are drawn     *)
(* outside transactions: every other series that must be continuous is,    *)
(* though the transactions that draw from it lock rows and counters of     *)
(* those too, in any order (lib/sequence.js 22-50).                        *)
THEOREM SeriesImplementPromise == Spec => TaxSeriesGapless
<1>1. NumberingInv /\ [Next]_vars => [Promise!Next]_([s \in KeptInside |-> documents[s]])
  BY PromiseStep
<1> QED BY <1>1, PromiseInit, NumberingHolds, PTL
        DEF Spec, SafeSpec, TaxSeriesGapless, Promise!Spec
=============================================================================
