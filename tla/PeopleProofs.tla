----------------------------- MODULE PeopleProofs -----------------------------
(***************************************************************************)
(* Theorems about an account, its sessions and its memberships, for any    *)
(* number of shops, concurrent requests, tokens and kept sessions.         *)
(***************************************************************************)
EXTENDS People, TLAPS

Requests == SessionReq \cup MembershipReq

(* A request between two statements: it names a token that was issued, and *)
(* knows of no account that is not there.                                  *)
RequestOK(q, exists, issued) ==
    /\ q \in Requests
    /\ q.op \notin {"rotating", "wiping"}
    /\ q.op = "refresh" => q.token \in issued
    /\ q.op \in {"upsert", "insert"} => exists
    /\ q.op \in {"register", "staffChecked"} /\ q.known => exists

(* A request inside one: the row that a rotation revoked is there until it *)
(* commits, and a wipe either goes by a row or is one that the row was put *)
(* in too late for.                                                        *)
AtWork(q, ts, w) ==
    /\ q \in Requests
    /\ \/ /\ q.op = "rotating"
          /\ q.token \in 1..Len(ts)
          /\ ts[q.token].status # "deleted"
       \/ /\ q.op = "wiping"
          /\ q.no \in 1..w.begun
          /\ \A i \in 1..Len(ts) :
                ts[i].status = "deleted" \/ i \in q.ids \/ q.no \in ts[i].spared

TokensOK ==
    /\ tokens \in Seq(Token)
    /\ Len(tokens) <= MaxTokens
    /\ wipes \in [begun : Nat, ended : SUBSET Nat]
    /\ wipes.ended \subseteq 1..wipes.begun
    /\ OnlyRacesOutliveWipes

(* No row of a mechanic is active without its approval, and none says      *)
(* anything of an account that is not there.                               *)
MechanicOK(m, exists) ==
    /\ m \in Mechanic
    /\ m.isActive => m.approval = "ACTIVE"
    /\ m.approval # "none" => exists

ShopsOK ==
    /\ staff \in [Shops -> {"none", "active", "inactive"}]
    /\ staffInvite \in [Shops -> Invite]
    /\ mechanicInvite \in [Shops -> Invite]
    /\ mechanic \in [Shops -> Mechanic]
    /\ \A s \in Shops : MechanicOK(mechanic[s], Exists)

IInv ==
    /\ account \in Account
    /\ TokensOK
    /\ links \in [sent : Nat, usable : SUBSET Nat]
    /\ req \in [Clients -> Requests]
    /\ \A c \in Clients :
          RequestOK(req[c], Exists, 1..Len(tokens)) \/ AtWork(req[c], tokens, wipes)
    /\ served \in Nat
    /\ ShopsOK

-----------------------------------------------------------------------------
(* What a step has to keep, one table at a time.                           *)
RequestsOK ==
    \A d \in Clients : RequestOK(req[d], Exists, 1..Len(tokens)) \/ AtWork(req[d], tokens, wipes)

OthersWork(c) ==
    \A d \in Clients : d # c /\ AtWork(req[d], tokens, wipes) => AtWork(req[d], tokens', wipes')

LEMMA RequestTurns ==
    ASSUME IInv, NEW c \in Clients, NEW q,
           RequestOK(q, Exists', 1..Len(tokens')) \/ AtWork(q, tokens', wipes'),
           Begin(c, q) \/ Continue(c, q),
           Exists => Exists', Len(tokens) <= Len(tokens'), TokensOK', OthersWork(c)
    PROVE  /\ req' \in [Clients -> Requests]
           /\ RequestsOK'
           /\ served' \in Nat
<1>1. /\ req' = [req EXCEPT ![c] = q]
      /\ served' \in Nat
      /\ q \in Requests
  BY DEF Begin, Continue, IInv, RequestOK, AtWork
<1>2. Len(tokens) \in Nat /\ Len(tokens') \in Nat
  BY DEF IInv, TokensOK
<1>3. ASSUME NEW d \in Clients
      PROVE  (RequestOK(req[d], Exists, 1..Len(tokens)) \/ AtWork(req[d], tokens, wipes))'
  <2>1. CASE d = c
    BY <1>1, <2>1 DEF IInv
  <2>2. CASE d # c
    <3>1. req'[d] = req[d]
      BY <1>1, <2>2 DEF IInv
    <3>2. CASE AtWork(req[d], tokens, wipes)
      BY <2>2, <3>1, <3>2 DEF OthersWork
    <3>3. CASE RequestOK(req[d], Exists, 1..Len(tokens))
      BY <1>2, <3>1, <3>3 DEF RequestOK
    <3> QED
      BY <3>2, <3>3 DEF IInv
  <2> QED
    BY <2>1, <2>2
<1> QED
  BY <1>1, <1>3 DEF IInv, RequestsOK

LEMMA NoRequestTurns ==
    ASSUME IInv, NEW c \in Clients, AtOnce(c),
           Exists => Exists', Len(tokens) <= Len(tokens'), TokensOK', OthersWork(c)
    PROVE  /\ req' \in [Clients -> Requests]
           /\ RequestsOK'
           /\ served' \in Nat
<1>1. UNCHANGED req /\ served' \in Nat /\ req[c] = Idle
  BY DEF AtOnce, IInv
<1>2. Len(tokens) \in Nat /\ Len(tokens') \in Nat
  BY DEF IInv, TokensOK
<1>3. ASSUME NEW d \in Clients
      PROVE  RequestOK(req[d], Exists', 1..Len(tokens')) \/ AtWork(req[d], tokens', wipes')
  <2>1. CASE AtWork(req[d], tokens, wipes)
    <3>1. d # c
      BY <1>1, <2>1 DEF AtWork, Idle
    <3> QED
      BY <2>1, <3>1 DEF OthersWork
  <2>2. CASE RequestOK(req[d], Exists, 1..Len(tokens))
    BY <1>2, <2>2 DEF RequestOK
  <2> QED
    BY <2>1, <2>2 DEF IInv
<1> QED
  BY <1>1, <1>3 DEF IInv, RequestsOK

(* What becomes of the request that takes a step.                          *)
Turns(c, q) == Begin(c, q) \/ Continue(c, q) \/ AtOnce(c)

LEMMA Step ==
    ASSUME IInv, NEW c \in Clients, NEW q,
           RequestOK(q, Exists', 1..Len(tokens')) \/ AtWork(q, tokens', wipes'),
           Turns(c, q),
           account' \in Account, Exists => Exists',
           TokensOK', Len(tokens) <= Len(tokens'), OthersWork(c),
           links' \in [sent : Nat, usable : SUBSET Nat],
           ShopsOK'
    PROVE  IInv'
BY RequestTurns, NoRequestTurns DEF IInv, Turns, RequestsOK

LEMMA ShopsAlone ==
    ASSUME IInv, UNCHANGED shopVars, Exists => Exists'
    PROVE  ShopsOK'
BY DEF IInv, ShopsOK, MechanicOK, shopVars, staffVars, mechanicVars

LEMMA TokensAlone ==
    ASSUME IInv, UNCHANGED <<tokens, wipes>>
    PROVE  /\ TokensOK' /\ Len(tokens) <= Len(tokens')
           /\ \A c \in Clients : OthersWork(c)
<1>1. Len(tokens) \in Nat
  BY DEF IInv, TokensOK
<1> QED
  BY <1>1 DEF IInv, TokensOK, OnlyRacesOutliveWipes, OthersWork

(* A step of the sessions that changes no token.                           *)
LEMMA SessionStepOf ==
    ASSUME IInv, NEW c \in Clients, NEW q, RequestOK(q, Exists', 1..Len(tokens)),
           Turns(c, q),
           account' \in Account, Exists => Exists',
           links' \in [sent : Nat, usable : SUBSET Nat],
           UNCHANGED <<tokens, wipes>>, UNCHANGED shopVars
    PROVE  IInv'
BY Step, ShopsAlone, TokensAlone

(* A step that changes nothing but what a request has read.                *)
LEMMA ReadingStep ==
    ASSUME IInv, NEW c \in Clients, NEW q, RequestOK(q, Exists, 1..Len(tokens)),
           Turns(c, q),
           UNCHANGED <<account, tokens, links, wipes>>, UNCHANGED shopVars
    PROVE  IInv'
<1>1. Exists' = Exists /\ account' \in Account
      /\ links' \in [sent : Nat, usable : SUBSET Nat]
  BY DEF IInv, Exists
<1> QED
  BY <1>1, SessionStepOf

(* The requests that name neither a token nor an account are always fine.  *)
LEMMA PlainRequests ==
    ASSUME NEW q \in Requests,
           q.op \notin {"refresh", "rotating", "wiping", "upsert", "insert", "register",
                        "staffChecked"},
           NEW e, NEW i
    PROVE  RequestOK(q, e, i)
BY DEF RequestOK

LEMMA IdleOK ==
    ASSUME NEW e, NEW i
    PROVE  RequestOK(Idle, e, i) /\ RequestOK(Welcome, e, i)
BY DEF RequestOK, Requests, SessionReq, Idle, Welcome

LEMMA SignInOK ==
    ASSUME IInv, NEW e, NEW i
    PROVE  RequestOK(SignIn, e, i) /\ RequestOK(SignInAndWelcome, e, i)
<1>1. Excess \subseteq 1..MaxTokens /\ wipes.begun \in Nat
  <2>1. tokens \in Seq(Token) /\ Len(tokens) <= MaxTokens
    BY DEF IInv, TokensOK
  <2>2. DOMAIN tokens \subseteq 1..MaxTokens
    BY <2>1, SessionsAssumption
  <2> QED
    BY <2>2 DEF Excess, IInv, TokensOK
<1> QED
  BY <1>1 DEF SignIn, SignInAndWelcome, RequestOK, Requests, SessionReq, Idle, Welcome

-----------------------------------------------------------------------------
(* The tokens.  A row is deleted, or revoked, or follows another; only the *)
(* first takes a session out of a wipe's reach.                            *)
LEMMA DeletedTokens ==
    ASSUME IInv, NEW ids
    PROVE  /\ Deleted(tokens, ids) \in Seq(Token)
           /\ Len(Deleted(tokens, ids)) = Len(tokens)
           /\ \A i \in 1..Len(tokens) :
                /\ i \in ids => Deleted(tokens, ids)[i].status = "deleted"
                /\ i \notin ids => Deleted(tokens, ids)[i] = tokens[i]
                /\ Deleted(tokens, ids)[i].spared = tokens[i].spared
<1>1. tokens \in Seq(Token) /\ DOMAIN tokens = 1..Len(tokens) /\ Len(tokens) \in Nat
  BY DEF IInv, TokensOK
<1>2. ASSUME NEW i \in 1..Len(tokens)
      PROVE  [tokens[i] EXCEPT !.status = "deleted"] \in Token
  <2>1. tokens[i] \in Token
    BY <1>1
  <2> QED
    BY <2>1 DEF Token
<1>3. Deleted(tokens, ids) \in [1..Len(tokens) -> Token]
  BY <1>1, <1>2 DEF Deleted
<1>4. Deleted(tokens, ids) \in Seq(Token) /\ Len(Deleted(tokens, ids)) = Len(tokens)
  BY <1>1, <1>3
<1>5. \A i \in 1..Len(tokens) :
        Deleted(tokens, ids)[i] = IF i \in ids THEN [tokens[i] EXCEPT !.status = "deleted"]
                                  ELSE tokens[i]
  BY <1>1 DEF Deleted
<1>6. \A i \in 1..Len(tokens) : tokens[i] \in Token
  BY <1>1
<1> QED
  BY <1>4, <1>5, <1>6 DEF Token

(* The requests inside a statement go on with the tokens as they become:   *)
(* no row comes back or is deleted under its lock, and a new one is spared *)
(* by the wipes under way.                                                 *)
LEMMA WorkKept ==
    ASSUME IInv, Len(tokens') \in Nat, Len(tokens) <= Len(tokens'),
           wipes'.begun \in Nat, wipes.begun <= wipes'.begun,
           \A i \in 1..Len(tokens) :
              /\ \/ tokens'[i].status = "deleted"
                 \/ tokens[i].status # "deleted" /\ tokens'[i].spared = tokens[i].spared
              /\ tokens'[i].status = "deleted" => tokens[i].status = "deleted" \/ ~Locked(i),
           \A i \in 1..Len(tokens') : i \in 1..Len(tokens) \/ UnderWay \subseteq tokens'[i].spared
    PROVE  \A c \in Clients : OthersWork(c)
<1> SUFFICES ASSUME NEW d \in Clients, AtWork(req[d], tokens, wipes)
             PROVE  AtWork(req[d], tokens', wipes')
  BY DEF OthersWork
<1>1. Len(tokens) \in Nat /\ wipes.begun \in Nat
  BY DEF IInv, TokensOK
<1>2. CASE req[d].op = "rotating"
  <2>1. req[d].token \in 1..Len(tokens) /\ tokens[req[d].token].status # "deleted"
    BY <1>2 DEF AtWork
  <2>2. Locked(req[d].token)
    BY <1>2 DEF Locked
  <2>3. tokens'[req[d].token].status # "deleted"
    BY <2>1, <2>2
  <2> QED
    BY <1>1, <1>2, <2>1, <2>3 DEF AtWork
<1>3. CASE req[d].op = "wiping"
  <2>1. /\ req[d].no \in 1..wipes.begun
        /\ \A i \in 1..Len(tokens) :
              tokens[i].status = "deleted" \/ i \in req[d].ids \/ req[d].no \in tokens[i].spared
    BY <1>3 DEF AtWork
  <2>2. req[d].no \in UnderWay
    BY <1>3 DEF UnderWay
  <2>3. req[d].no \in 1..wipes'.begun
    BY <1>1, <2>1
  <2>4. \A i \in 1..Len(tokens') :
           tokens'[i].status = "deleted" \/ i \in req[d].ids \/ req[d].no \in tokens'[i].spared
    BY <2>1, <2>2
  <2> QED
    BY <1>3, <2>3, <2>4 DEF AtWork
<1> QED
  BY <1>2, <1>3 DEF AtWork

LEMMA WipeBegun ==
    ASSUME IInv, BeginWipe
    PROVE  /\ TokensOK' /\ UNCHANGED tokens
           /\ Len(tokens) <= Len(tokens')
           /\ \A c \in Clients : OthersWork(c)
<1>1. /\ UNCHANGED tokens /\ Len(tokens) \in Nat
      /\ wipes.begun \in Nat /\ wipes'.begun = wipes.begun + 1 /\ wipes'.ended = wipes.ended
      /\ wipes' \in [begun : Nat, ended : SUBSET Nat]
  BY DEF BeginWipe, IInv, TokensOK
<1>2. wipes'.ended \subseteq 1..wipes'.begun
  BY <1>1 DEF IInv, TokensOK
<1>3. TokensOK'
  BY <1>1, <1>2 DEF IInv, TokensOK, OnlyRacesOutliveWipes
<1>4. \A i \in 1..Len(tokens) : tokens'[i].status = "deleted" => tokens[i].status = "deleted"
  BY <1>1
<1>5. \A c \in Clients : OthersWork(c)
  <2>1. Len(tokens') \in Nat /\ Len(tokens) <= Len(tokens') /\ wipes'.begun \in Nat
        /\ wipes.begun <= wipes'.begun
    BY <1>1
  <2>2. \A i \in 1..Len(tokens) :
           /\ \/ tokens'[i].status = "deleted"
              \/ tokens[i].status # "deleted" /\ tokens'[i].spared = tokens[i].spared
           /\ tokens'[i].status = "deleted" => tokens[i].status = "deleted" \/ ~Locked(i)
    BY <1>1
  <2> QED
    BY <1>1, <2>1, <2>2, WorkKept
<1> QED
  BY <1>1, <1>3, <1>5

LEMMA WipeWorks ==
    ASSUME IInv, BeginWipe,
           NEW next \in {Idle, [op |-> "delete"]} \cup ResetReq
    PROVE  AtWork(Wipe(next), tokens', wipes')
<1>1. /\ UNCHANGED tokens /\ DOMAIN tokens = 1..Len(tokens) /\ Len(tokens) \in Nat
      /\ Len(tokens) <= MaxTokens
      /\ wipes.begun \in Nat /\ wipes'.begun = wipes.begun + 1
  BY DEF BeginWipe, IInv, TokensOK
<1> DEFINE ids == {i \in DOMAIN tokens : tokens[i].status # "deleted"}
           no == wipes.begun + 1
<1>2. Wipe(next) = [op |-> "wiping", no |-> no, next |-> next, ids |-> ids]
  BY DEF Wipe
<1>3. ids \subseteq 1..MaxTokens /\ no \in 1..wipes'.begun /\ no \in Nat
  BY <1>1, SessionsAssumption
<1>4. \A i \in 1..Len(tokens') : tokens'[i].status = "deleted" \/ i \in ids
  BY <1>1
<1> HIDE DEF ids, no
<1>5. Wipe(next) \in Requests
  BY <1>2, <1>3 DEF Requests, SessionReq
<1> QED
  BY <1>2, <1>3, <1>4, <1>5 DEF AtWork

LEMMA WipeEnded ==
    ASSUME IInv, NEW c \in Clients, EndWipe(c)
    PROVE  /\ TokensOK'
           /\ Len(tokens) <= Len(tokens')
           /\ OthersWork(c)
<1> DEFINE ids == req[c].ids
           no == req[c].no
<1>1. /\ req[c].op = "wiping"
      /\ tokens' = Deleted(tokens, ids)
      /\ wipes' = [wipes EXCEPT !.ended = @ \cup {no}]
      /\ \A i \in ids : ~Locked(i)
  BY DEF EndWipe
<1>2. AtWork(req[c], tokens, wipes)
  BY <1>1 DEF IInv, RequestOK
<1>3. /\ no \in 1..wipes.begun
      /\ \A i \in 1..Len(tokens) :
            tokens[i].status = "deleted" \/ i \in ids \/ no \in tokens[i].spared
  BY <1>1, <1>2 DEF AtWork
<1>4. /\ tokens \in Seq(Token) /\ Len(tokens) \in Nat /\ DOMAIN tokens = 1..Len(tokens)
      /\ Len(tokens) <= MaxTokens
      /\ wipes.begun \in Nat /\ wipes.ended \subseteq 1..wipes.begun
      /\ wipes'.begun = wipes.begun /\ wipes'.ended = wipes.ended \cup {no}
      /\ wipes' \in [begun : Nat, ended : SUBSET Nat]
  BY <1>1, <1>3 DEF IInv, TokensOK
<1>5. /\ tokens' \in Seq(Token) /\ Len(tokens') = Len(tokens) /\ DOMAIN tokens' = 1..Len(tokens)
      /\ \A i \in 1..Len(tokens) :
           /\ i \in ids => tokens'[i].status = "deleted"
           /\ i \notin ids => tokens'[i] = tokens[i]
           /\ tokens'[i].spared = tokens[i].spared
  <2>1. /\ tokens' \in Seq(Token) /\ Len(tokens') = Len(tokens)
        /\ \A i \in 1..Len(tokens) :
             /\ i \in ids => tokens'[i].status = "deleted"
             /\ i \notin ids => tokens'[i] = tokens[i]
             /\ tokens'[i].spared = tokens[i].spared
    BY <1>1, DeletedTokens
  <2> QED
    BY <2>1
<1> HIDE DEF ids, no
<1>6. ASSUME NEW i \in 1..Len(tokens), tokens'[i].status # "deleted"
      PROVE  wipes'.ended \subseteq tokens'[i].spared
  <2>1. i \notin ids /\ tokens'[i] = tokens[i] /\ no \in tokens[i].spared
    BY <1>3, <1>5, <1>6
  <2>2. wipes.ended \subseteq tokens[i].spared
    BY <1>4, <1>6, <2>1 DEF IInv, TokensOK, OnlyRacesOutliveWipes
  <2> QED
    BY <1>4, <2>1, <2>2
<1>7. TokensOK'
  <2>1. wipes'.ended \subseteq 1..wipes'.begun
    BY <1>3, <1>4
  <2> QED
    BY <1>4, <1>5, <1>6, <2>1 DEF TokensOK, OnlyRacesOutliveWipes
<1>8. \A i \in 1..Len(tokens) :
        /\ \/ tokens'[i].status = "deleted"
           \/ tokens[i].status # "deleted" /\ tokens'[i].spared = tokens[i].spared
        /\ tokens'[i].status = "deleted" => tokens[i].status = "deleted" \/ ~Locked(i)
  <2> SUFFICES ASSUME NEW i \in 1..Len(tokens)
               PROVE  /\ \/ tokens'[i].status = "deleted"
                         \/ /\ tokens[i].status # "deleted"
                            /\ tokens'[i].spared = tokens[i].spared
                      /\ tokens'[i].status = "deleted" =>
                            tokens[i].status = "deleted" \/ ~Locked(i)
    OBVIOUS
  <2>1. CASE i \in ids
    <3>1. ~Locked(i) /\ tokens'[i].status = "deleted"
      BY <1>1, <1>5, <2>1 DEF ids
    <3> QED
      BY <3>1
  <2>2. CASE i \notin ids
    BY <1>5, <2>2
  <2> QED
    BY <2>1, <2>2
<1>9. OthersWork(c)
  BY <1>4, <1>5, <1>8, WorkKept
<1> QED
  BY <1>4, <1>5, <1>7, <1>9

LEMMA Revoked ==
    ASSUME IInv, NEW i \in DOMAIN tokens, NEW st \in {"grace", "stale"},
           tokens[i].status # "deleted",
           tokens' = [tokens EXCEPT ![i].status = st], UNCHANGED wipes
    PROVE  /\ TokensOK' /\ Len(tokens') = Len(tokens)
           /\ \A c \in Clients : OthersWork(c)
<1>1. /\ tokens \in Seq(Token)
      /\ DOMAIN tokens = 1..Len(tokens) /\ Len(tokens) \in Nat
      /\ tokens[i] \in Token
      /\ wipes.begun \in Nat
  BY DEF IInv, TokensOK
<1> DEFINE t == [tokens[i] EXCEPT !.status = st]
<1>2. t \in Token /\ t.spared = tokens[i].spared /\ t.status # "deleted"
  BY <1>1 DEF Token
<1>3. tokens' = [tokens EXCEPT ![i] = t]
  BY <1>1
<1> HIDE DEF t
<1>4. /\ tokens' \in Seq(Token)
      /\ Len(tokens') = Len(tokens)
      /\ DOMAIN tokens' = 1..Len(tokens)
      /\ tokens'[i] = t
      /\ \A k \in 1..Len(tokens) : k # i => tokens'[k] = tokens[k]
  BY <1>1, <1>2, <1>3
<1>5. TokensOK'
  BY <1>1, <1>2, <1>4 DEF IInv, TokensOK, OnlyRacesOutliveWipes
<1>6. \A k \in 1..Len(tokens) :
        /\ \/ tokens'[k].status = "deleted"
           \/ tokens[k].status # "deleted" /\ tokens'[k].spared = tokens[k].spared
        /\ tokens'[k].status = "deleted" => tokens[k].status = "deleted" \/ ~Locked(k)
  BY <1>1, <1>2, <1>4
<1>7. \A c \in Clients : OthersWork(c)
  BY <1>1, <1>4, <1>6, WorkKept
<1> QED
  BY <1>4, <1>5, <1>7

(* A new row behind rows that are deleted, without a lock, or as before:   *)
(* every wipe that has ended or is under way spares it.                    *)
LEMMA Issued ==
    ASSUME IInv, Len(tokens) < MaxTokens, NEW ts \in Seq(Token), NEW t \in Token,
           t.status # "deleted", wipes.ended \subseteq t.spared, UnderWay \subseteq t.spared,
           Len(ts) = Len(tokens),
           \A i \in 1..Len(tokens) :
              /\ ts[i].spared = tokens[i].spared
              /\ ts[i].status # "deleted" => tokens[i].status # "deleted"
              /\ ts[i].status = "deleted" => tokens[i].status = "deleted" \/ ~Locked(i),
           tokens' = Append(ts, t), UNCHANGED wipes
    PROVE  /\ TokensOK' /\ Len(tokens) <= Len(tokens')
           /\ \A c \in Clients : OthersWork(c)
<1>1. tokens \in Seq(Token) /\ Len(tokens) \in Nat /\ wipes.begun \in Nat
      /\ DOMAIN tokens = 1..Len(tokens)
  BY DEF IInv, TokensOK
<1>2. /\ tokens' \in Seq(Token)
      /\ Len(tokens') = Len(tokens) + 1
      /\ DOMAIN tokens' = 1..(Len(tokens) + 1)
      /\ tokens'[Len(tokens) + 1] = t
      /\ \A i \in 1..Len(tokens) : tokens'[i] = ts[i]
  BY <1>1
<1>3. Len(tokens') <= MaxTokens
  BY <1>1, <1>2, SessionsAssumption
<1>4. ASSUME NEW i \in 1..(Len(tokens) + 1), tokens'[i].status # "deleted"
      PROVE  wipes.ended \subseteq tokens'[i].spared
  <2>1. CASE i = Len(tokens) + 1
    BY <1>2, <2>1
  <2>2. CASE i # Len(tokens) + 1
    <3>1. i \in 1..Len(tokens)
      BY <1>1, <2>2
    <3>2. tokens[i].status # "deleted" /\ tokens'[i].spared = tokens[i].spared
      BY <1>2, <1>4, <3>1
    <3> QED
      BY <1>1, <3>1, <3>2 DEF IInv, TokensOK, OnlyRacesOutliveWipes
  <2> QED
    BY <2>1, <2>2
<1>5. TokensOK'
  BY <1>2, <1>3, <1>4 DEF IInv, TokensOK, OnlyRacesOutliveWipes
<1>6. \A i \in 1..Len(tokens) :
        /\ \/ tokens'[i].status = "deleted"
           \/ tokens[i].status # "deleted" /\ tokens'[i].spared = tokens[i].spared
        /\ tokens'[i].status = "deleted" => tokens[i].status = "deleted" \/ ~Locked(i)
  BY <1>2
<1>7. \A i \in 1..Len(tokens') : i \in 1..Len(tokens) \/ UnderWay \subseteq tokens'[i].spared
  BY <1>1, <1>2
<1>8. \A c \in Clients : OthersWork(c)
  BY <1>1, <1>2, <1>6, <1>7, WorkKept
<1> QED
  BY <1>1, <1>2, <1>5, <1>8

(* A wipe under way has begun.                                             *)
LEMMA UnderWayBegun == IInv => UnderWay \subseteq 1..wipes.begun
BY DEF IInv, UnderWay, AtWork, RequestOK

-----------------------------------------------------------------------------
LEMMA InitIInv == Init => IInv
<1> SUFFICES ASSUME Init PROVE IInv
  OBVIOUS
<1>1. account \in Account
  BY DEF Init, SessionInit, NoAccount, Account, Roles
<1>2. TokensOK
  BY SessionsAssumption DEF Init, SessionInit, TokensOK, OnlyRacesOutliveWipes
<1>3. Idle \in Requests /\ RequestOK(Idle, Exists, 1..Len(tokens))
  BY IdleOK DEF RequestOK
<1>4. ShopsOK
  BY DEF Init, MembershipInit, ShopsOK, MechanicOK, NoMechanic, Mechanic, Invite
<1> QED
  BY <1>1, <1>2, <1>3, <1>4 DEF Init, SessionInit, IInv

(* Requests that begin with a read, go on, or end, and write nothing yet.  *)
LEMMA StepSessionReads ==
    ASSUME IInv, NEW c \in Clients, UNCHANGED shopVars,
           \/ Login(c) \/ BeginRefresh(c) \/ FailRotation(c) \/ BeginReset(c)
           \/ BeginSetPassword(c) \/ BeginChangePassword(c) \/ BeginRename(c)
           \/ BeginLink(c) \/ BeginSetup(c) \/ BeginRegisterShop(c)
           \/ BeginVerify(c) \/ BeginToggle(c) \/ Die(c)
    PROVE  IInv'
<1>1. ASSUME NEW q, RequestOK(q, Exists, 1..Len(tokens)),
             Begin(c, q) \/ Continue(c, q),
             UNCHANGED <<account, tokens, links, wipes>>
      PROVE  IInv'
  BY <1>1, ReadingStep DEF Turns
<1>2. CASE Login(c)
  BY <1>1, <1>2, SignInOK DEF Login
<1>3. CASE BeginRefresh(c)
  <2>1. PICK i \in DOMAIN tokens :
            /\ Begin(c, [op |-> "refresh", token |-> i])
            /\ UNCHANGED <<account, tokens, links, wipes>>
    BY <1>3 DEF BeginRefresh
  <2>2. i \in 1..Len(tokens) /\ i \in 1..MaxTokens
    <3>1. tokens \in Seq(Token) /\ Len(tokens) <= MaxTokens
      BY DEF IInv, TokensOK
    <3> QED
      BY <3>1, SessionsAssumption
  <2>3. RequestOK([op |-> "refresh", token |-> i], Exists, 1..Len(tokens))
    BY <2>2 DEF RequestOK, Requests, SessionReq
  <2> QED
    BY <1>1, <2>1, <2>3
<1>4. CASE FailRotation(c) \/ Die(c)
  BY <1>1, <1>4, IdleOK DEF FailRotation, Die, End
<1>5. CASE BeginReset(c)
  <2>1. PICK i \in links.usable :
            /\ Begin(c, [op |-> "reset", link |-> i])
            /\ UNCHANGED <<account, tokens, links, wipes>>
    BY <1>5 DEF BeginReset
  <2>2. i \in Nat
    BY DEF IInv
  <2>3. RequestOK([op |-> "reset", link |-> i], Exists, 1..Len(tokens))
    BY <2>2 DEF RequestOK, Requests, SessionReq, ResetReq
  <2> QED
    BY <1>1, <2>1, <2>3
<1>6. CASE BeginSetPassword(c) \/ BeginChangePassword(c)
  <2>1. RequestOK([op |-> "setPassword"], Exists, 1..Len(tokens))
    BY DEF RequestOK, Requests, SessionReq
  <2> QED
    BY <1>1, <1>6, <2>1 DEF BeginSetPassword, BeginChangePassword
<1>7. CASE BeginRename(c) \/ BeginLink(c)
  <2>1. RequestOK([op |-> "rename"], Exists, 1..Len(tokens))
    BY DEF RequestOK, Requests, SessionReq
  <2> QED
    BY <1>1, <1>7, <2>1 DEF BeginRename, BeginLink
<1>8. CASE BeginSetup(c)
  <2>1. RequestOK([op |-> "setup"], Exists, 1..Len(tokens))
    BY DEF RequestOK, Requests, SessionReq
  <2> QED
    BY <1>1, <1>8, <2>1 DEF BeginSetup
<1>9. CASE BeginRegisterShop(c)
  <2>1. RequestOK([op |-> "registerShop"], Exists, 1..Len(tokens))
    BY DEF RequestOK, Requests, SessionReq
  <2> QED
    BY <1>1, <1>9, <2>1 DEF BeginRegisterShop
<1>10. CASE BeginVerify(c)
  <2>1. PICK verdict \in {"APPROVED", "REJECTED"} :
            /\ Begin(c, [op |-> "verify", verdict |-> verdict, seen |-> account.isActive])
            /\ UNCHANGED <<account, tokens, links, wipes>>
    BY <1>10 DEF BeginVerify
  <2>2. account.isActive \in BOOLEAN
    BY DEF IInv, Account
  <2>3. RequestOK([op |-> "verify", verdict |-> verdict, seen |-> account.isActive], Exists,
                  1..Len(tokens))
    BY <2>2 DEF RequestOK, Requests, SessionReq
  <2> QED
    BY <1>1, <2>1, <2>3
<1>11. CASE BeginToggle(c)
  <2>1. account.isActive \in BOOLEAN
    BY DEF IInv, Account
  <2>2. RequestOK([op |-> "toggle", seen |-> account.isActive], Exists, 1..Len(tokens))
    BY <2>1 DEF RequestOK, Requests, SessionReq
  <2> QED
    BY <1>1, <1>11, <2>2 DEF BeginToggle
<1> QED
  BY <1>2, <1>3, <1>4, <1>5, <1>6, <1>7, <1>8, <1>9, <1>10, <1>11

(* Writes of the account's row alone: it is never unmade.                  *)
LEMMA AccountWritten ==
    ASSUME IInv, NEW c \in Clients, NEW q, RequestOK(q, Exists', 1..Len(tokens)),
           Turns(c, q),
           account' \in Account, Exists => Exists',
           UNCHANGED <<tokens, links, wipes>>, UNCHANGED shopVars
    PROVE  IInv'
<1>1. links' \in [sent : Nat, usable : SUBSET Nat]
  BY DEF IInv
<1> QED
  BY <1>1, SessionStepOf

LEMMA NewAccounts ==
    ASSUME NEW role \in {"CUSTOMER", "SHOP_OWNER", "MECHANIC"}
    PROVE  /\ [NoAccount EXCEPT !.role = role] \in Account
           /\ [NoAccount EXCEPT !.role = role, !.password = TRUE] \in Account
           /\ [NoAccount EXCEPT !.role = role].role # "none"
           /\ [NoAccount EXCEPT !.role = role, !.password = TRUE].role # "none"
BY DEF NoAccount, Account, Roles

LEMMA StepSignUp ==
    ASSUME IInv, NEW c \in Clients, UNCHANGED shopVars,
           Register(c) \/ VerifyOtp(c) \/ Firebase(c) \/ Google(c)
    PROVE  IInv'
<1>1. account' \in Account /\ (Exists => Exists')
      /\ UNCHANGED <<tokens, links, wipes>> /\ Turns(c, SignIn)
  <2>1. CASE Register(c)
    BY <2>1, NewAccounts DEF Register, SelfRoles, Exists, Turns
  <2>2. ASSUME NEW roles \in SUBSET {"CUSTOMER", "SHOP_OWNER", "MECHANIC"}, NewAccount(roles)
        PROVE  account' \in Account /\ (Exists => Exists')
    BY <2>2, NewAccounts DEF NewAccount, Exists
  <2>3. CASE VerifyOtp(c)
    <3>1. account' \in Account /\ (Exists => Exists')
      BY <2>2, <2>3 DEF VerifyOtp, SelfRoles, Exists, IInv
    <3> QED
      BY <2>3, <3>1 DEF VerifyOtp, Turns
  <2>4. ASSUME NEW roles \in SUBSET {"CUSTOMER", "SHOP_OWNER", "MECHANIC"},
               ByProvider(c, roles)
        PROVE  account' \in Account /\ (Exists => Exists')
               /\ UNCHANGED <<tokens, links, wipes>> /\ Turns(c, SignIn)
    <3>1. account' \in Account /\ (Exists => Exists')
      <4>1. CASE NewAccount(roles)
        BY <2>2, <4>1
      <4>2. CASE Exists /\ \E mail \in BOOLEAN : account' = [account EXCEPT !.named = @ \/ mail]
        BY <4>2 DEF Exists, IInv, Account
      <4> QED
        BY <2>4, <4>1, <4>2 DEF ByProvider
    <3> QED
      BY <2>4, <3>1 DEF ByProvider, Turns
  <2> QED
    BY <2>1, <2>3, <2>4 DEF Firebase, Google, SelfRoles
<1> QED
  BY <1>1, SignInOK, AccountWritten

LEMMA StepAccountWrites ==
    ASSUME IInv, NEW c \in Clients, UNCHANGED shopVars,
           \/ FinishDelete(c) \/ CommitSetPassword(c) \/ CommitRename(c)
           \/ SubmitShop(c) \/ LinkShop(c) \/ FinishRegisterShop(c)
           \/ FinishVerify(c) \/ FinishToggle(c)
    PROVE  IInv'
<1>1. account \in Account /\ req[c] \in Requests
  BY DEF IInv
<1>2. ASSUME NEW q, RequestOK(q, Exists', 1..Len(tokens)), Continue(c, q),
             account' \in Account,
             account'.role = account.role \/ account'.role = "SHOP_OWNER",
             UNCHANGED <<tokens, links, wipes>>
      PROVE  IInv'
  <2>1. Exists => Exists'
    BY <1>2 DEF Exists
  <2> QED
    BY <1>2, <2>1, AccountWritten DEF Turns
<1>3. RequestOK(Idle, Exists', 1..Len(tokens)) /\ RequestOK(Welcome, Exists', 1..Len(tokens))
  BY IdleOK
<1>4. CASE FinishDelete(c)
  <2>1. account' \in Account /\ account'.role = account.role
    BY <1>1, <1>4 DEF FinishDelete, Account
  <2> QED
    BY <1>2, <1>3, <1>4, <2>1 DEF FinishDelete, End
<1>5. CASE CommitSetPassword(c)
  <2>1. account' \in Account /\ account'.role = account.role
    BY <1>1, <1>5 DEF CommitSetPassword, Account
  <2> QED
    BY <1>2, <1>3, <1>5, <2>1 DEF CommitSetPassword, End
<1>6. CASE CommitRename(c)
  <2>1. account' \in Account /\ account'.role = account.role
    BY <1>1, <1>6 DEF CommitRename, Account
  <2> QED
    BY <1>2, <1>3, <1>6, <2>1 DEF CommitRename, End
<1>7. CASE SubmitShop(c)
  <2>1. account' \in Account /\ account'.role = account.role
    BY <1>1, <1>7 DEF SubmitShop, Account
  <2>2. RequestOK([op |-> "submitted"], Exists', 1..Len(tokens))
    BY DEF RequestOK, Requests, SessionReq
  <2> QED
    BY <1>2, <1>7, <2>1, <2>2 DEF SubmitShop
<1>8. CASE LinkShop(c)
  <2>1. account' \in Account /\ account'.role = account.role
    BY <1>1, <1>8 DEF LinkShop, Account
  <2>2. RequestOK([op |-> "linked"], Exists', 1..Len(tokens))
    BY DEF RequestOK, Requests, SessionReq
  <2> QED
    BY <1>2, <1>8, <2>1, <2>2 DEF LinkShop
<1>9. CASE FinishRegisterShop(c)
  <2>1. account' \in Account /\ account'.role = "SHOP_OWNER"
    BY <1>1, <1>9 DEF FinishRegisterShop, Account, Roles
  <2> QED
    BY <1>2, <1>3, <1>9, <2>1 DEF FinishRegisterShop, End
<1>10. CASE FinishVerify(c)
  <2>1. req[c].verdict \in {"APPROVED", "REJECTED"} /\ req[c].seen \in BOOLEAN
    BY <1>1, <1>10 DEF FinishVerify, Requests, SessionReq, ResetReq, MembershipReq
  <2>2. account' \in Account /\ account'.role = account.role
    BY <1>1, <1>10, <2>1 DEF FinishVerify, Account
  <2>3. Continue(c, Welcome) \/ Continue(c, Idle)
    BY <1>10 DEF FinishVerify
  <2> QED
    BY <1>2, <1>3, <1>10, <2>2, <2>3 DEF FinishVerify
<1>11. CASE FinishToggle(c)
  <2>1. account' \in Account /\ account'.role = account.role
    BY <1>1, <1>11 DEF FinishToggle, Account
  <2> QED
    BY <1>2, <1>3, <1>11, <2>1 DEF FinishToggle, End
<1> QED
  BY <1>4, <1>5, <1>6, <1>7, <1>8, <1>9, <1>10, <1>11

(* The steps that issue, revoke and wipe tokens.                           *)
LEMMA TokenStep ==
    ASSUME IInv, NEW c \in Clients, NEW q,
           \/ RequestOK(q, Exists, 1..Len(tokens)) /\ q.op # "refresh"
           \/ AtWork(q, tokens', wipes'),
           Turns(c, q),
           TokensOK', Len(tokens) <= Len(tokens'), OthersWork(c),
           account' \in Account, Exists' = Exists,
           links' \in [sent : Nat, usable : SUBSET Nat], UNCHANGED shopVars
    PROVE  IInv'
<1>1. RequestOK(q, Exists', 1..Len(tokens')) \/ AtWork(q, tokens', wipes')
  BY DEF RequestOK
<1> QED
  BY <1>1, Step, ShopsAlone

LEMMA StepCreateSession ==
    ASSUME IInv, NEW c \in Clients, CreateSession(c), UNCHANGED shopVars
    PROVE  IInv'
<1> DEFINE q == req[c]
           ts == Deleted(tokens, q.excess)
           t == [status |-> "live", since |-> q.since, spared |-> 1..wipes.begun]
<1>1. /\ q.op = "signIn"
      /\ Len(tokens) < MaxTokens
      /\ \A i \in q.excess : ~Locked(i)
      /\ tokens' = Append(ts, t)
      /\ Continue(c, q.next)
      /\ UNCHANGED <<account, links, wipes>>
  BY DEF CreateSession
<1>2. q.next \in {Idle, Welcome} /\ q.since \in Nat
  BY <1>1 DEF IInv, Requests, SessionReq, ResetReq, MembershipReq
<1>3. /\ ts \in Seq(Token)
      /\ Len(ts) = Len(tokens)
      /\ \A i \in 1..Len(tokens) :
           /\ i \in q.excess => ts[i].status = "deleted"
           /\ i \notin q.excess => ts[i] = tokens[i]
           /\ ts[i].spared = tokens[i].spared
  BY DeletedTokens
<1>4. /\ t \in Token /\ t.status # "deleted"
      /\ wipes.ended \subseteq t.spared /\ UnderWay \subseteq t.spared
  BY <1>2, UnderWayBegun DEF IInv, TokensOK, Token
<1>5. RequestOK(q.next, Exists, 1..Len(tokens)) /\ q.next.op # "refresh"
  BY <1>2, IdleOK DEF Idle, Welcome
<1>6. account' \in Account /\ Exists' = Exists
      /\ links' \in [sent : Nat, usable : SUBSET Nat]
  BY <1>1 DEF IInv, Exists
<1>7. Turns(c, q.next)
  BY <1>1 DEF Turns
<1> HIDE DEF ts, t
<1>8. \A i \in 1..Len(tokens) :
        /\ ts[i].spared = tokens[i].spared
        /\ ts[i].status # "deleted" => tokens[i].status # "deleted"
        /\ ts[i].status = "deleted" => tokens[i].status = "deleted" \/ ~Locked(i)
  BY <1>1, <1>3
<1>9. /\ TokensOK' /\ Len(tokens) <= Len(tokens')
      /\ \A d \in Clients : OthersWork(d)
  <2>1. UNCHANGED wipes
    BY <1>1
  <2> QED
    BY <1>1, <1>3, <1>4, <1>8, <2>1, Issued
<1> QED
  BY <1>5, <1>6, <1>7, <1>9, TokenStep

LEMMA StepRevoke ==
    ASSUME IInv, NEW c \in Clients, Revoke(c), UNCHANGED shopVars
    PROVE  IInv'
<1> DEFINE i == req[c].token
           q == [op |-> "rotating", token |-> i]
<1>1. /\ req[c].op = "refresh" /\ tokens[i].status # "deleted"
      /\ Continue(c, q)
      /\ UNCHANGED <<account, tokens, links, wipes>>
  BY DEF Revoke, RowExists
<1>2. i \in 1..Len(tokens) /\ i \in 1..MaxTokens
  <2>1. i \in 1..Len(tokens)
    BY <1>1 DEF IInv, RequestOK, AtWork
  <2>2. Len(tokens) \in Nat /\ Len(tokens) <= MaxTokens
    BY DEF IInv, TokensOK
  <2> QED
    BY <2>1, <2>2, SessionsAssumption
<1>3. q \in Requests
  BY <1>2 DEF Requests, SessionReq
<1>4. AtWork(q, tokens', wipes')
  BY <1>1, <1>2, <1>3 DEF AtWork
<1>5. TokensOK' /\ Len(tokens) <= Len(tokens') /\ OthersWork(c)
  BY <1>1, TokensAlone
<1>6. /\ account' \in Account /\ Exists' = Exists
      /\ links' \in [sent : Nat, usable : SUBSET Nat] /\ Turns(c, q)
  BY <1>1 DEF IInv, Exists, Turns
<1> HIDE DEF q
<1> QED
  BY <1>4, <1>5, <1>6, TokenStep

LEMMA StepRotate ==
    ASSUME IInv, NEW c \in Clients, Rotate(c), UNCHANGED shopVars
    PROVE  IInv'
<1> DEFINE i == req[c].token
           old == [tokens[i] EXCEPT !.status = IF @ = "deleted" THEN @ ELSE "grace"]
           new == [tokens[i] EXCEPT !.status = "live", !.spared = @ \cup UnderWay]
           ts == [tokens EXCEPT ![i] = old]
<1>1. /\ req[c].op = "rotating"
      /\ Len(tokens) < MaxTokens
      /\ tokens' = Append([tokens EXCEPT ![i].status = IF @ = "deleted" THEN @ ELSE "grace"],
                          new)
      /\ Continue(c, Idle)
      /\ UNCHANGED <<account, links, wipes>>
  BY DEF Rotate, End
<1>2. AtWork(req[c], tokens, wipes)
  BY <1>1 DEF IInv, RequestOK
<1>3. /\ tokens \in Seq(Token)
      /\ DOMAIN tokens = 1..Len(tokens)
      /\ i \in 1..Len(tokens) /\ tokens[i].status # "deleted"
  BY <1>1, <1>2 DEF IInv, TokensOK, AtWork
<1>4. /\ tokens[i] \in Token
      /\ wipes.ended \subseteq tokens[i].spared
  BY <1>3 DEF IInv, TokensOK, OnlyRacesOutliveWipes
<1>5. UnderWay \subseteq Nat
  BY UnderWayBegun
<1>6. old \in Token /\ old.spared = tokens[i].spared /\ old.status # "deleted"
  BY <1>3, <1>4 DEF Token
<1>7. /\ new \in Token /\ new.status # "deleted"
      /\ new.spared = tokens[i].spared \cup UnderWay
  BY <1>4, <1>5 DEF Token
<1>8. tokens' = Append(ts, new)
  BY <1>1, <1>3
<1> HIDE DEF old, new
<1>9. /\ ts \in Seq(Token)
      /\ Len(ts) = Len(tokens)
      /\ ts[i] = old
      /\ \A k \in 1..Len(tokens) : k # i => ts[k] = tokens[k]
  BY <1>3, <1>6
<1>10. \A k \in 1..Len(tokens) :
        /\ ts[k].spared = tokens[k].spared
        /\ ts[k].status # "deleted" => tokens[k].status # "deleted"
        /\ ts[k].status = "deleted" => tokens[k].status = "deleted" \/ ~Locked(k)
  BY <1>3, <1>6, <1>9
<1>11. /\ TokensOK' /\ Len(tokens) <= Len(tokens')
       /\ \A d \in Clients : OthersWork(d)
  <2>1. UNCHANGED wipes
    BY <1>1
  <2>2. wipes.ended \subseteq new.spared /\ UnderWay \subseteq new.spared
    BY <1>4, <1>7
  <2> HIDE DEF ts
  <2> QED
    BY <1>1, <1>7, <1>8, <1>9, <1>10, <2>1, <2>2, Issued
<1>12. RequestOK(Idle, Exists, 1..Len(tokens)) /\ Idle.op # "refresh" /\ Turns(c, Idle)
  BY <1>1, IdleOK DEF Idle, Turns
<1>13. account' \in Account /\ Exists' = Exists
       /\ links' \in [sent : Nat, usable : SUBSET Nat]
  BY <1>1 DEF IInv, Exists
<1> QED
  BY <1>11, <1>12, <1>13, TokenStep

LEMMA StepRevokes ==
    ASSUME IInv, NEW c \in Clients, RefuseRefresh(c) \/ Logout(c), UNCHANGED shopVars
    PROVE  IInv'
<1>1. PICK i \in DOMAIN tokens :
        /\ tokens[i].status \in {"live", "grace"}
        /\ AtOnce(c)
        /\ tokens' = [tokens EXCEPT ![i].status = "grace"]
        /\ UNCHANGED <<account, links, wipes>>
  BY DEF RefuseRefresh, Logout, Refreshable
<1>2. TokensOK' /\ Len(tokens') = Len(tokens) /\ OthersWork(c)
  BY <1>1, Revoked
<1>3. Len(tokens) <= Len(tokens')
  BY <1>2 DEF IInv, TokensOK
<1>4. RequestOK(Idle, Exists, 1..Len(tokens)) /\ Idle.op # "refresh" /\ Turns(c, Idle)
  BY <1>1, IdleOK DEF Idle, Turns
<1>5. account' \in Account /\ Exists' = Exists
      /\ links' \in [sent : Nat, usable : SUBSET Nat]
  BY <1>1 DEF IInv, Exists
<1> QED
  BY <1>2, <1>3, <1>4, <1>5, TokenStep

LEMMA StepGraceEnds ==
    ASSUME IInv, GraceEnds, UNCHANGED shopVars
    PROVE  IInv'
<1>1. PICK i \in DOMAIN tokens :
        /\ tokens[i].status = "grace"
        /\ tokens' = [tokens EXCEPT ![i].status = "stale"]
        /\ UNCHANGED <<account, links, wipes, req, served>>
  BY DEF GraceEnds
<1>2. /\ TokensOK' /\ Len(tokens') = Len(tokens)
      /\ \A c \in Clients : OthersWork(c)
  BY <1>1, Revoked
<1>3. ShopsOK'
  BY <1>1, ShopsAlone DEF Exists
<1>4. RequestsOK'
  <2> SUFFICES ASSUME NEW d \in Clients
               PROVE  RequestOK(req[d], Exists', 1..Len(tokens')) \/ AtWork(req[d], tokens', wipes')
    BY <1>1 DEF RequestsOK
  <2>1. CASE RequestOK(req[d], Exists, 1..Len(tokens))
    BY <1>1, <1>2, <2>1 DEF RequestOK, Exists
  <2>2. CASE AtWork(req[d], tokens, wipes)
    <3>1. CASE req[d].op = "rotating"
      BY <1>1, <1>2, <2>2, <3>1 DEF AtWork, IInv, TokensOK, Token
    <3>2. CASE req[d].op = "wiping"
      BY <1>1, <1>2, <2>2, <3>2 DEF AtWork, IInv, TokensOK, Token
    <3> QED
      BY <2>2, <3>1, <3>2 DEF AtWork
  <2> QED
    BY <2>1, <2>2 DEF IInv
<1> QED
  BY <1>1, <1>2, <1>3, <1>4 DEF IInv, RequestsOK

LEMMA StepBeginWipes ==
    ASSUME IInv, NEW c \in Clients, UNCHANGED shopVars,
           LogoutAll(c) \/ BeginDelete(c) \/ WipeForReset(c) \/ EndSetupSessions(c)
    PROVE  IInv'
<1>1. BeginWipe /\ UNCHANGED <<account, links>>
  BY DEF LogoutAll, BeginDelete, WipeForReset, EndSetupSessions
<1>2. PICK next \in {Idle, [op |-> "delete"]} \cup ResetReq : Turns(c, Wipe(next))
  <2>1. CASE LogoutAll(c)
    BY <2>1 DEF LogoutAll, Turns
  <2>2. CASE BeginDelete(c)
    BY <2>2 DEF BeginDelete, Turns
  <2>3. CASE EndSetupSessions(c)
    BY <2>3 DEF EndSetupSessions, Turns
  <2>4. CASE WipeForReset(c)
    <3>1. req[c].op = "reset" /\ Continue(c, Wipe(req[c]))
      BY <2>4 DEF WipeForReset
    <3>2. req[c] \in ResetReq
      BY <3>1 DEF IInv, Requests, SessionReq, ResetReq, MembershipReq, Idle
    <3> QED
      BY <3>1, <3>2 DEF Turns
  <2> QED
    BY <2>1, <2>2, <2>3, <2>4
<1>3. AtWork(Wipe(next), tokens', wipes')
  BY <1>1, WipeWorks
<1>4. TokensOK' /\ Len(tokens) <= Len(tokens') /\ OthersWork(c)
  BY <1>1, WipeBegun
<1>5. /\ account' \in Account /\ Exists' = Exists
      /\ links' \in [sent : Nat, usable : SUBSET Nat]
  BY <1>1 DEF IInv, Exists
<1> QED
  BY <1>2, <1>3, <1>4, <1>5, TokenStep

LEMMA StepEndWipes ==
    ASSUME IInv, NEW c \in Clients, FinishWipe(c) \/ CommitReset(c), UNCHANGED shopVars
    PROVE  IInv'
<1>1. EndWipe(c) /\ req[c].op = "wiping"
  BY DEF FinishWipe, CommitReset, EndWipe
<1>2. TokensOK' /\ Len(tokens) <= Len(tokens') /\ OthersWork(c)
  BY <1>1, WipeEnded
<1>3. req[c].next \in {Idle, [op |-> "delete"]} \cup ResetReq
  BY <1>1 DEF IInv, Requests, SessionReq, ResetReq, MembershipReq, Idle
<1>4. \E q : RequestOK(q, Exists, 1..Len(tokens)) /\ q.op # "refresh" /\ Turns(c, q)
  <2>1. RequestOK(Idle, Exists, 1..Len(tokens)) /\ Idle.op # "refresh"
    BY IdleOK DEF Idle
  <2>2. RequestOK([op |-> "delete"], Exists, 1..Len(tokens))
    BY DEF RequestOK, Requests, SessionReq
  <2>3. CASE FinishWipe(c)
    <3>1. req[c].next \in {Idle, [op |-> "delete"]}
      BY <1>3, <2>3 DEF FinishWipe, ResetReq
    <3> QED
      BY <2>1, <2>2, <2>3, <3>1 DEF FinishWipe, Turns
  <2>4. CASE CommitReset(c)
    BY <2>1, <2>4 DEF CommitReset, Turns, End
  <2> QED
    BY <2>3, <2>4
<1>5. account' \in Account /\ Exists' = Exists
  <2>1. CASE CommitReset(c)
    BY <2>1 DEF CommitReset, IInv, Account, Exists
  <2>2. CASE FinishWipe(c)
    BY <2>2 DEF FinishWipe, IInv, Exists
  <2> QED
    BY <2>1, <2>2
<1>6. links' \in [sent : Nat, usable : SUBSET Nat]
  BY DEF FinishWipe, CommitReset, IInv
<1> QED
  BY <1>2, <1>4, <1>5, <1>6, TokenStep

LEMMA StepLinks ==
    ASSUME IInv, NEW c \in Clients, UNCHANGED shopVars,
           ForgotPassword(c) \/ BeginWelcome(c) \/ SendLink(c)
    PROVE  IInv'
<1>1. links.sent \in Nat /\ links.usable \subseteq Nat
  BY DEF IInv
<1>2. links' \in [sent : Nat, usable : SUBSET Nat]
  <2>1. CASE ForgotPassword(c) \/ BeginWelcome(c)
    BY <2>1 DEF ForgotPassword, BeginWelcome, IInv
  <2>2. CASE SendLink(c)
    BY <1>1, <2>2 DEF SendLink
  <2> QED
    BY <2>1, <2>2
<1>3. UNCHANGED <<account, tokens, wipes>>
  BY DEF ForgotPassword, BeginWelcome, SendLink
<1>4. RequestOK([op |-> "newLink"], Exists, 1..Len(tokens))
      /\ RequestOK(Idle, Exists, 1..Len(tokens))
  BY IdleOK DEF RequestOK, Requests, SessionReq
<1>5. \E q : RequestOK(q, Exists, 1..Len(tokens)) /\ Turns(c, q)
  BY <1>4 DEF ForgotPassword, BeginWelcome, SendLink, Turns, End
<1>6. account' \in Account /\ Exists' = Exists
  BY <1>3 DEF IInv, Exists
<1> QED
  BY <1>2, <1>3, <1>5, <1>6, SessionStepOf

LEMMA StepSessions ==
    ASSUME IInv, SessionStep, UNCHANGED shopVars
    PROVE  IInv'
BY StepSessionReads, StepSignUp, StepAccountWrites, StepCreateSession, StepRevoke,
   StepRotate, StepRevokes, StepGraceEnds, StepBeginWipes, StepEndWipes, StepLinks DEF SessionStep

-----------------------------------------------------------------------------
(* Steps of the membership leave tokens and links alone.                   *)
LEMMA MemberStep ==
    ASSUME IInv, NEW c \in Clients, NEW q, RequestOK(q, Exists', 1..Len(tokens)),
           Turns(c, q),
           account' \in Account, Exists => Exists',
           UNCHANGED sessionVars,
           ShopsOK'
    PROVE  IInv'
<1>1. UNCHANGED <<tokens, wipes>> /\ links' \in [sent : Nat, usable : SUBSET Nat]
  BY DEF sessionVars, IInv
<1>2. TokensOK' /\ Len(tokens) <= Len(tokens') /\ OthersWork(c)
  BY <1>1, TokensAlone
<1>3. RequestOK(q, Exists', 1..Len(tokens'))
  BY <1>1
<1> QED
  BY <1>1, <1>2, <1>3, Step

(* Rows of staff and invitations, of which no property speaks.             *)
LEMMA StepStaffRows ==
    ASSUME IInv, NEW c \in Clients,
           \/ InviteStaff(c) \/ CancelStaffInvite(c) \/ ChangeStaff(c)
           \/ InviteMechanic(c) \/ InviteToTeam(c) \/ CancelMechanicInvite(c)
    PROVE  IInv'
<1>1. AtOnce(c) /\ UNCHANGED account /\ UNCHANGED sessionVars
  BY DEF InviteStaff, CancelStaffInvite, ChangeStaff, InviteMechanic, InviteToTeam,
         CancelMechanicInvite
<1>2. Exists' = Exists /\ account' \in Account
  BY <1>1 DEF Exists, IInv
<1>3. /\ staff' \in [Shops -> {"none", "active", "inactive"}]
      /\ staffInvite' \in [Shops -> Invite]
      /\ mechanicInvite' \in [Shops -> Invite]
      /\ UNCHANGED mechanic
  <2>1. ShopsOK
    BY DEF IInv
  <2>2. CASE InviteStaff(c) \/ CancelStaffInvite(c)
    BY <2>1, <2>2 DEF ShopsOK, InviteStaff, CancelStaffInvite, Invite, mechanicVars
  <2>3. CASE ChangeStaff(c)
    BY <2>1, <2>3 DEF ShopsOK, ChangeStaff, mechanicVars
  <2>4. CASE InviteMechanic(c) \/ InviteToTeam(c) \/ CancelMechanicInvite(c)
    BY <2>1, <2>4 DEF ShopsOK, InviteMechanic, InviteToTeam, CancelMechanicInvite, Invite,
                      staffVars
  <2> QED
    BY <2>2, <2>3, <2>4
<1>4. ShopsOK'
  BY <1>2, <1>3 DEF ShopsOK, IInv
<1>5. RequestOK(Idle, Exists', 1..Len(tokens)) /\ Turns(c, Idle)
  BY <1>1, IdleOK DEF Turns
<1> QED
  BY <1>1, <1>2, <1>4, <1>5, MemberStep

LEMMA StepMemberReads ==
    ASSUME IInv, NEW c \in Clients,
           \/ BeginAcceptStaff(c) \/ CheckAcceptStaff(c) \/ BeginAcceptMechanic(c)
           \/ BeginRegister(c) \/ Refused(c) \/ BeginApprove(c) \/ BeginConvert(c)
    PROVE  IInv'
<1>1. UNCHANGED <<account, tokens, links, wipes>> /\ UNCHANGED shopVars
  BY DEF BeginAcceptStaff, CheckAcceptStaff, BeginAcceptMechanic, BeginRegister, Refused,
         BeginApprove, BeginConvert, sessionVars, shopVars
<1>2. \A s \in Shops :
        /\ RequestOK([op |-> "staffAccept", shop |-> s], Exists, 1..Len(tokens))
        /\ RequestOK([op |-> "mechanicAccept", shop |-> s], Exists, 1..Len(tokens))
        /\ RequestOK([op |-> "approve", shop |-> s], Exists, 1..Len(tokens))
        /\ RequestOK([op |-> "staffChecked", shop |-> s, known |-> Exists], Exists,
                     1..Len(tokens))
        /\ RequestOK([op |-> "register", shop |-> s, known |-> Exists], Exists,
                     1..Len(tokens))
  <2>1. Exists \in BOOLEAN
    BY DEF Exists
  <2> QED
    BY <2>1 DEF RequestOK, Requests, MembershipReq
<1>3. /\ RequestOK([op |-> "convert"], Exists, 1..Len(tokens))
      /\ RequestOK(Idle, Exists, 1..Len(tokens))
  BY IdleOK DEF RequestOK, Requests, MembershipReq
<1>4. \E q : RequestOK(q, Exists, 1..Len(tokens)) /\ Turns(c, q)
  <2>1. CASE BeginAcceptStaff(c) \/ BeginAcceptMechanic(c) \/ BeginRegister(c) \/ BeginApprove(c)
    BY <1>2, <2>1 DEF BeginAcceptStaff, BeginAcceptMechanic, BeginRegister, BeginApprove, Turns
  <2>2. CASE CheckAcceptStaff(c)
    <3>1. req[c].op = "staffAccept" /\ req[c] \in Requests
      BY <2>2 DEF CheckAcceptStaff, IInv
    <3>2. req[c].shop \in Shops
      BY <3>1 DEF Requests, SessionReq, ResetReq, MembershipReq, Idle
    <3> QED
      BY <1>2, <1>3, <2>2, <3>2 DEF CheckAcceptStaff, Turns, End
  <2>3. CASE Refused(c) \/ BeginConvert(c)
    BY <1>3, <2>3 DEF Refused, BeginConvert, Turns, End
  <2> QED
    BY <2>1, <2>2, <2>3
<1> QED
  BY <1>1, <1>4, ReadingStep

(* A mechanic's row at one shop is written.                                *)
LEMMA MechanicWritten ==
    ASSUME IInv, NEW s \in Shops, NEW m, MechanicOK(m, Exists'),
           mechanic' = [mechanic EXCEPT ![s] = m],
           UNCHANGED staffVars, mechanicInvite' \in [Shops -> Invite],
           Exists => Exists'
    PROVE  ShopsOK'
<1>1. mechanic \in [Shops -> Mechanic] /\ m \in Mechanic
  BY DEF IInv, ShopsOK, MechanicOK
<1>2. /\ mechanic' \in [Shops -> Mechanic]
      /\ mechanic'[s] = m
      /\ \A t \in Shops : t # s => mechanic'[t] = mechanic[t]
  BY <1>1
<1>3. \A t \in Shops : MechanicOK(mechanic'[t], Exists')
  BY <1>2 DEF IInv, ShopsOK, MechanicOK
<1> QED
  BY <1>2, <1>3 DEF IInv, ShopsOK, staffVars

LEMMA ApprovedOK ==
    ASSUME NEW e
    PROVE  /\ e => MechanicOK(Approved, e)
           /\ MechanicOK(NoMechanic, e)
BY DEF MechanicOK, Approved, NoMechanic, Mechanic

LEMMA StepAccepts ==
    ASSUME IInv, NEW c \in Clients, CommitAcceptStaff(c) \/ CommitAcceptMechanic(c)
    PROVE  IInv'
<1> DEFINE s == req[c].shop
<1>1. s \in Shops
  <2>1. req[c].op \in {"staffChecked", "mechanicAccept"} /\ req[c] \in Requests
    BY DEF CommitAcceptStaff, CommitAcceptMechanic, IInv
  <2> QED
    BY <2>1 DEF Requests, SessionReq, ResetReq, MembershipReq, Idle
<1>2. /\ account' \in Account
      /\ Exists'
      /\ Continue(c, SignInAndWelcome)
      /\ UNCHANGED sessionVars
  BY <1>1 DEF CommitAcceptStaff, CommitAcceptMechanic, IInv, Account, Roles, Exists
<1>3. ShopsOK'
  <2>1. CASE CommitAcceptStaff(c)
    BY <1>1, <1>2, <2>1 DEF CommitAcceptStaff, IInv, ShopsOK, MechanicOK, Invite, mechanicVars
  <2>2. CASE CommitAcceptMechanic(c)
    <3>1. mechanicInvite' \in [Shops -> Invite]
      BY <2>2 DEF CommitAcceptMechanic, IInv, ShopsOK, Invite
    <3> QED
      BY <1>1, <1>2, <2>2, <3>1, ApprovedOK, MechanicWritten DEF CommitAcceptMechanic
  <2> QED
    BY <2>1, <2>2
<1> QED
  BY <1>2, <1>3, SignInOK, MemberStep DEF Turns

LEMMA StepCommitRegister ==
    ASSUME IInv, NEW c \in Clients, CommitRegister(c)
    PROVE  IInv'
<1> DEFINE s == req[c].shop
<1>1. /\ req[c].op = "register"
      /\ account' = IF req[c].known THEN account
                    ELSE [NoAccount EXCEPT !.role = "MECHANIC", !.shop = s]
      /\ mechanic' = [mechanic EXCEPT ![s] = Awaiting(@)]
      /\ Continue(c, Idle)
      /\ UNCHANGED sessionVars /\ UNCHANGED staffVars /\ UNCHANGED mechanicInvite
  BY DEF CommitRegister, End
<1>2. s \in Shops /\ req[c].known \in BOOLEAN
  BY <1>1 DEF IInv, Requests, SessionReq, ResetReq, MembershipReq, Idle
<1>3. account' \in Account /\ Exists'
  <2>1. CASE req[c].known
    BY <1>1, <2>1 DEF IInv, RequestOK, AtWork, Exists
  <2>2. CASE ~req[c].known
    BY <1>1, <1>2, <2>2 DEF NoAccount, Account, Roles, Exists
  <2> QED
    BY <2>1, <2>2
<1>4. mechanic' = [mechanic EXCEPT ![s] = Awaiting(mechanic[s])]
      /\ MechanicOK(Awaiting(mechanic[s]), Exists')
  BY <1>1, <1>2, <1>3 DEF Awaiting, MechanicOK, Mechanic
<1>5. mechanicInvite' \in [Shops -> Invite]
  BY <1>1 DEF IInv, ShopsOK
<1>6. ShopsOK'
  BY <1>1, <1>2, <1>3, <1>4, <1>5, MechanicWritten
<1> QED
  BY <1>1, <1>3, <1>6, IdleOK, MemberStep DEF Turns

LEMMA StepVerdicts ==
    ASSUME IInv, NEW c \in Clients,
           CommitApprove(c) \/ Reject(c) \/ ActivateMechanic(c)
    PROVE  IInv'
<1>1. UNCHANGED account /\ UNCHANGED sessionVars /\ UNCHANGED staffVars
      /\ UNCHANGED mechanicInvite
  BY DEF CommitApprove, Reject, ActivateMechanic
<1>2. Exists' = Exists /\ account' \in Account /\ mechanicInvite' \in [Shops -> Invite]
  BY <1>1 DEF Exists, IInv, ShopsOK
<1>3. \A s \in Shops : MechanicOK(mechanic[s], Exists')
  BY <1>2 DEF IInv, ShopsOK
<1>4. PICK s, m :
        s \in Shops /\ MechanicOK(m, Exists') /\ mechanic' = [mechanic EXCEPT ![s] = m]
  <2>1. CASE CommitApprove(c)
    <3> DEFINE s == req[c].shop
               m == IF mechanic[s].approval = "PENDING" THEN Approved ELSE mechanic[s]
    <3>1. req[c].op = "approve" /\ mechanic' = [mechanic EXCEPT ![s] = m]
      BY <2>1 DEF CommitApprove
    <3>2. s \in Shops
      BY <3>1 DEF IInv, Requests, SessionReq, ResetReq, MembershipReq, Idle
    <3>3. MechanicOK(m, Exists')
      <4>1. CASE mechanic[s].approval = "PENDING"
        <5>1. Exists'
          BY <1>3, <3>2, <4>1 DEF MechanicOK
        <5> QED
          BY <4>1, <5>1, ApprovedOK
      <4>2. CASE mechanic[s].approval # "PENDING"
        BY <1>3, <3>2, <4>2
      <4> QED
        BY <4>1, <4>2
    <3> QED
      BY <3>1, <3>2, <3>3
  <2>2. CASE Reject(c)
    <3>1. PICK s \in Shops :
            /\ mechanic[s].approval = "PENDING"
            /\ mechanic' = [mechanic EXCEPT ![s] = [approval |-> "REJECTED", isActive |-> FALSE]]
      BY <2>2 DEF Reject
    <3>2. MechanicOK([approval |-> "REJECTED", isActive |-> FALSE], Exists')
      BY <1>3, <3>1 DEF MechanicOK, Mechanic
    <3> QED
      BY <3>1, <3>2
  <2>3. CASE ActivateMechanic(c)
    <3>1. PICK s \in Shops, to \in BOOLEAN :
            /\ mechanic[s].approval # "none"
            /\ mechanic' = [mechanic EXCEPT ![s] =
                              IF to THEN Approved ELSE [@ EXCEPT !.isActive = FALSE]]
      BY <2>3 DEF ActivateMechanic
    <3> DEFINE m == IF to THEN Approved ELSE [mechanic[s] EXCEPT !.isActive = FALSE]
    <3>2. mechanic' = [mechanic EXCEPT ![s] = m]
      BY <3>1
    <3>3. MechanicOK(mechanic[s], Exists') /\ Exists'
      BY <1>3, <3>1 DEF MechanicOK
    <3>4. MechanicOK(m, Exists')
      <4>1. CASE to
        BY <3>3, <4>1, ApprovedOK
      <4>2. CASE ~to
        BY <3>3, <4>2 DEF MechanicOK, Mechanic
      <4> QED
        BY <4>1, <4>2
    <3> QED
      BY <3>2, <3>4
  <2> QED
    BY <2>1, <2>2, <2>3
<1>5. ShopsOK'
  BY <1>1, <1>2, <1>4, MechanicWritten
<1>6. \E q : RequestOK(q, Exists', 1..Len(tokens)) /\ Turns(c, q)
  BY IdleOK DEF CommitApprove, Reject, ActivateMechanic, Turns
<1> QED
  BY <1>1, <1>2, <1>5, <1>6, MemberStep

LEMMA StepMechanicAccounts ==
    ASSUME IInv, NEW c \in Clients, RegisterIndependent(c) \/ FinishConvert(c)
    PROVE  IInv'
<1>1. account' \in Account /\ Exists'
  <2>1. CASE RegisterIndependent(c)
    BY <2>1, NewAccounts DEF RegisterIndependent, Exists
  <2>2. CASE FinishConvert(c)
    BY <2>2 DEF FinishConvert, IInv, Account, Roles, Exists
  <2> QED
    BY <2>1, <2>2
<1>2. UNCHANGED sessionVars /\ UNCHANGED shopVars
  BY DEF RegisterIndependent, FinishConvert
<1>3. \E q : RequestOK(q, Exists', 1..Len(tokens)) /\ Turns(c, q)
  BY IdleOK, SignInOK DEF RegisterIndependent, FinishConvert, Turns, End
<1> QED
  BY <1>1, <1>2, <1>3, ShopsAlone, MemberStep

LEMMA StepAdministrator ==
    ASSUME IInv, NEW c \in Clients, AdminCreates(c) \/ SetUserType(c)
    PROVE  IInv'
<1>1. PICK role \in UserTypes, s \in Shops \cup {NoShop} :
        /\ account' \in Account
        /\ account'.role = role
        /\ ThenUpsert(c, role, s)
        /\ UNCHANGED sessionVars /\ UNCHANGED shopVars
  <2>1. CASE AdminCreates(c)
    <3>1. PICK role \in UserTypes, s \in Shops \cup {NoShop} :
            /\ account' = [NoAccount EXCEPT !.role = role, !.password = TRUE,
                             !.verification = IF role = "SHOP_OWNER" THEN "APPROVED" ELSE @]
            /\ ThenUpsert(c, role, s)
            /\ UNCHANGED sessionVars /\ UNCHANGED shopVars
      BY <2>1 DEF AdminCreates
    <3>2. account' \in Account /\ account'.role = role
      BY <3>1 DEF UserTypes, NoAccount, Account, Roles
    <3> QED
      BY <3>1, <3>2
  <2>2. CASE SetUserType(c)
    <3>1. PICK role \in UserTypes, s \in Shops \cup {NoShop} :
            /\ account' = [account EXCEPT !.role = role]
            /\ ThenUpsert(c, role, s)
            /\ UNCHANGED sessionVars /\ UNCHANGED shopVars
      BY <2>2 DEF SetUserType
    <3>2. account' \in Account /\ account'.role = role
      BY <3>1 DEF UserTypes, IInv, Account, Roles
    <3> QED
      BY <3>1, <3>2
  <2> QED
    BY <2>1, <2>2
<1>2. Exists'
  BY <1>1 DEF Exists, UserTypes
<1>3. \E q : RequestOK(q, Exists', 1..Len(tokens)) /\ Turns(c, q)
  <2>1. CASE role = "MECHANIC" /\ s # NoShop
    <3>1. RequestOK([op |-> "upsert", shop |-> s], Exists', 1..Len(tokens))
      BY <1>2, <2>1 DEF RequestOK, Requests, MembershipReq
    <3> QED
      BY <1>1, <2>1, <3>1 DEF ThenUpsert, Turns
  <2>2. CASE ~(role = "MECHANIC" /\ s # NoShop)
    BY <1>1, <2>2, IdleOK DEF ThenUpsert, Turns
  <2> QED
    BY <2>1, <2>2
<1> QED
  BY <1>1, <1>2, <1>3, ShopsAlone, MemberStep

LEMMA StepUpsert ==
    ASSUME IInv, NEW c \in Clients, ClearMechanics(c) \/ InsertMechanic(c)
    PROVE  IInv'
<1> DEFINE s == req[c].shop
<1>1. /\ req[c].op \in {"upsert", "insert"}
      /\ UNCHANGED account /\ UNCHANGED sessionVars /\ UNCHANGED staffVars
      /\ UNCHANGED mechanicInvite
  BY DEF ClearMechanics, InsertMechanic
<1>2. s \in Shops /\ Exists
  <2>1. req[c] \in Requests /\ RequestOK(req[c], Exists, 1..Len(tokens))
    BY <1>1 DEF IInv, AtWork
  <2> QED
    BY <1>1, <2>1 DEF RequestOK, Requests, SessionReq, ResetReq, MembershipReq, Idle
<1>3. Exists' /\ account' \in Account /\ mechanicInvite' \in [Shops -> Invite]
  BY <1>1, <1>2 DEF Exists, IInv, ShopsOK
<1>4. CASE ClearMechanics(c)
  <2>1. mechanic' = [t \in Shops |-> NoMechanic] /\ Continue(c, [op |-> "insert", shop |-> s])
    BY <1>4 DEF ClearMechanics
  <2>2. ShopsOK'
    BY <1>1, <1>3, <2>1, ApprovedOK DEF IInv, ShopsOK, MechanicOK, staffVars
  <2>3. RequestOK([op |-> "insert", shop |-> s], Exists', 1..Len(tokens))
    BY <1>2, <1>3 DEF RequestOK, Requests, MembershipReq
  <2> QED
    BY <1>1, <1>3, <2>1, <2>2, <2>3, MemberStep DEF Turns
<1>5. CASE InsertMechanic(c)
  <2> DEFINE m == IF mechanic[s] = NoMechanic THEN Approved ELSE mechanic[s]
  <2>1. mechanic' = [mechanic EXCEPT ![s] = m] /\ Continue(c, Idle)
    BY <1>5 DEF InsertMechanic, End
  <2>2. MechanicOK(mechanic[s], Exists')
    BY <1>2, <1>3 DEF IInv, ShopsOK, MechanicOK
  <2>3. MechanicOK(m, Exists')
    BY <1>3, <2>2, ApprovedOK
  <2>4. ShopsOK'
    BY <1>1, <1>2, <1>3, <2>1, <2>3, MechanicWritten
  <2> QED
    BY <1>1, <1>3, <2>1, <2>4, IdleOK, MemberStep DEF Turns
<1> QED
  BY <1>4, <1>5

LEMMA StepMembership ==
    ASSUME IInv, MembershipStep
    PROVE  IInv'
BY StepStaffRows, StepMemberReads, StepAccepts, StepCommitRegister, StepVerdicts,
   StepMechanicAccounts, StepAdministrator, StepUpsert DEF MembershipStep

LEMMA StepIInv == IInv /\ [Next]_vars => IInv'
<1> SUFFICES ASSUME IInv, [Next]_vars PROVE IInv'
  OBVIOUS
<1>1. CASE SessionStep /\ UNCHANGED shopVars
  BY <1>1, StepSessions
<1>2. CASE MembershipStep
  BY <1>2, StepMembership
<1>3. CASE UNCHANGED vars
  BY <1>3 DEF IInv, TokensOK, OnlyRacesOutliveWipes, RequestOK, AtWork, ShopsOK, MechanicOK,
              Exists, vars, authVars, shopVars
<1> QED
  BY <1>1, <1>2, <1>3 DEF Next

LEMMA Inductive == Spec => []IInv
<1>1. Init => IInv
  BY InitIInv
<1>2. IInv /\ [Next]_vars => IInv'
  BY StepIInv
<1> QED
  BY <1>1, <1>2, PTL DEF Spec

(* The account, its tokens, its memberships and the requests that work on  *)
(* them have their types.                                                  *)
THEOREM PeopleType == Spec => []TypeOK
<1>1. IInv => TypeOK
  BY DEF IInv, TypeOK, TokensOK, ShopsOK, Requests
<1> QED
  BY <1>1, Inductive, PTL

(* A token that is there when a wipe has ended was put in by a request     *)
(* that the wipe overlapped, or continues one that was: whatever else      *)
(* races, a wipe is final (session.js 151-166, password.js 155-180).       *)
THEOREM WipesLeaveOnlyRaces == Spec => []OnlyRacesOutliveWipes
<1>1. IInv => OnlyRacesOutliveWipes
  BY DEF IInv, TokensOK
<1> QED
  BY <1>1, Inductive, PTL

(* A mechanic who is active at a shop was approved by it and has an        *)
(* account, whatever requests raced (mechanic/auth.js, shop-admin.js).     *)
THEOREM ActiveIsApproved == Spec => []ActiveMeansApproved
<1>1. IInv => ActiveMeansApproved
  BY DEF IInv, ShopsOK, MechanicOK, ActiveMeansApproved
<1> QED
  BY <1>1, Inductive, PTL
=============================================================================
