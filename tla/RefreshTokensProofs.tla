------------------------- MODULE RefreshTokensProofs -------------------------
(***************************************************************************)
(* Proofs about RefreshTokens, for any families, tokens, concurrent calls, *)
(* lifetimes and grace windows, and about AuthSession, its client, for any *)
(* number of tabs and of pairs.                                            *)
(***************************************************************************)
EXTENDS RefreshTokens, AuthSession, TLAPS

-----------------------------------------------------------------------------
(* Types.                                                                  *)

LEMMA RecordEdit ==
  ASSUME NEW r \in Record, NEW b \in BOOLEAN, NEW n \in Nat
  PROVE  /\ [r EXCEPT !.stored = b] \in Record
         /\ [r EXCEPT !.spentAt = n] \in Record
  BY DEF Record

LEMMA SaveTypes ==
  ASSUME store \in [Token -> Record], NEW t \in Token, NEW r \in Record,
         SaveRecord(t, r)
  PROVE  store' \in [Token -> Record]
  BY RecordEdit DEF SaveRecord

LEMMA RemoveTypes ==
  ASSUME store \in [Token -> Record], NEW T, Remove(T)
  PROVE  store' \in [Token -> Record]
  BY RecordEdit DEF Remove

LEMMA MintTypes ==
  ASSUME store \in [Token -> Record], NEW t \in Token, NEW f \in Family,
         NEW n \in Nat, Mint(t, f, n)
  PROVE  store' \in [Token -> Record]
<1> DEFINE r == [family |-> f, expiresAt |-> n + Ttl, spentAt |-> Unspent, stored |-> TRUE]
<1>1. r \in Record
  BY RefreshAssumption DEF Record
<1> QED
  BY <1>1, SaveTypes DEF Mint

LEMMA ReturnTypes ==
  ASSUME TypeOK, NEW k \in Call, Returns(k)
  PROVE  /\ pc' \in [Call -> Places] /\ held' \in [Call -> Token \cup {None}]
         /\ found' \in [Call -> Record] /\ mintAt' \in [Call -> Nat]
<1>1. NoRecord \in Record
  BY DEF NoRecord, Record
<1> QED
  BY <1>1 DEF TypeOK, Returns, Places

\* A call that is not idle was given a token of a family and found its record
\* stored; a stored record belongs to a family. A record once there stays, at
\* least as history, in its family.
Holding ==
  /\ \A t \in Token : store[t].stored => store[t].family \in Family
  /\ \A k \in Call : pc[k] = "idle" => found[k].family = None
  /\ \A k \in Call : pc[k] # "idle" =>
       /\ held[k] \in Token /\ found[k].family \in Family /\ found[k].stored
       /\ store[held[k]].family = found[k].family
       /\ pc[k] \in {"lost", "resolving", "signing", "failed"} => found[k].spentAt = Unspent

TInv == TypeOK /\ Holding

\* What an operation of the store leaves of a record it does not write.
Keeps(u) ==
  /\ store'[u].family = store[u].family /\ store'[u].spentAt = store[u].spentAt
  /\ store'[u].expiresAt = store[u].expiresAt
  /\ store'[u].stored => store[u].stored

LEMMA SaveEffect ==
  ASSUME store \in [Token -> Record], NEW t \in Token, NEW r, SaveRecord(t, r)
  PROVE  /\ store'[t] = r
         /\ \A u \in Token \ {t} :
              Keeps(u) /\ (store'[u].stored <=> store[u].stored /\ ~Expired(store[u]))
  BY DEF SaveRecord, Keeps, Record

LEMMA RemoveEffect ==
  ASSUME store \in [Token -> Record], NEW T, Remove(T)
  PROVE  \A u \in Token : Keeps(u) /\ (store'[u].stored <=> store[u].stored /\ u \notin T)
  BY DEF Remove, Keeps, Record

LEMMA MintEffect ==
  ASSUME store \in [Token -> Record], NEW t \in Token, NEW f \in Family, NEW n, Mint(t, f, n)
  PROVE  /\ store[t].family = None /\ ~store[t].stored
         /\ store'[t].family = f /\ store'[t].spentAt = Unspent /\ store'[t].stored
         /\ \A u \in Token \ {t} :
              Keeps(u) /\ (store'[u].stored <=> store[u].stored /\ ~Expired(store[u]))
  BY SaveEffect DEF Mint, NoRecord

\* What the properties remember of a family.
FateTypes ==
  /\ ended \in [Family -> {"no", "logged out", "revoked"}]
  /\ survivors \in [Family -> SUBSET Call] /\ reborn \subseteq Family

LEMMA RevokeTypes ==
  ASSUME FateTypes, NEW F \in SUBSET Family, NEW by, Revoke(F, by)
  PROVE  FateTypes'
  BY DEF Revoke, FateTypes

LEMMA TStep == ASSUME TInv, [Next]_vars PROVE TInv'
<1> USE RefreshAssumption DEF TInv, fate, FateTypes
<1>1. ASSUME NEW f \in Family, NEW t \in Token, Issue(f, t) PROVE TInv'
  <2>1. Mint(t, f, now) /\ UNCHANGED <<now, grace, pc, held, found, mintAt, fate>>
    BY <1>1 DEF Issue, call
  <2>2. store' \in [Token -> Record]
    BY <2>1, MintTypes DEF TypeOK
  <2>3. TypeOK'
    BY <2>1, <2>2 DEF TypeOK
  <2>4. Holding'
    <3>1. /\ store[t].family = None /\ store'[t].family \in Family
          /\ \A u \in Token \ {t} : Keeps(u)
      BY <2>1, MintEffect DEF TypeOK
    <3> QED
      BY <2>1, <3>1 DEF Holding, Keeps
  <2> QED
    BY <2>3, <2>4
<1>2. ASSUME NEW k \in Call, NEW t \in Token, Find(k, t) PROVE TInv'
  <2>1. TypeOK'
    BY <1>2 DEF Find, TypeOK, Places
  <2>2. Holding'
    BY <1>2 DEF Find, TypeOK, Holding
  <2> QED
    BY <2>1, <2>2
<1>3. ASSUME NEW k \in Call, Returns(k), store' \in [Token -> Record],
             UNCHANGED <<now, grace>>, \A u \in Token : Keeps(u),
             FateTypes'
      PROVE  TInv'
  <2>1. TypeOK'
    BY <1>3, ReturnTypes DEF TypeOK
  <2>2. /\ pc'[k] = "idle" /\ found'[k].family = None
        /\ \A j \in Call \ {k} : pc'[j] = pc[j] /\ held'[j] = held[j] /\ found'[j] = found[j]
    BY <1>3 DEF Returns, TypeOK, NoRecord
  <2>3. Holding'
    <3>1. \A u \in Token : /\ store'[u].family = store[u].family
                           /\ store'[u].stored => store[u].stored
      BY <1>3 DEF Keeps
    <3>2. Holding
      OBVIOUS
    <3> HIDE DEF TInv
    <3> QED
      BY <2>2, <3>1, <3>2 DEF Holding
  <2> QED
    BY <2>1, <2>3
<1>4. ASSUME NEW k \in Call, RejectExpired(k) PROVE TInv'
  BY <1>3, <1>4 DEF RejectExpired, TypeOK, Keeps
<1>5. ASSUME NEW k \in Call, RetryInGrace(k) PROVE TInv'
  <2>1. TypeOK'
    BY <1>5 DEF RetryInGrace, Goes, TypeOK, Places
  <2>2. Holding'
    BY <1>5 DEF RetryInGrace, Found, Goes, TypeOK, Holding
  <2> QED
    BY <2>1, <2>2
<1>6. ASSUME NEW k \in Call, DetectReuse(k) \/ RevokeAsLoser(k) PROVE TInv'
  <2>1. /\ Revoke({found[k].family}, k) /\ Returns(k) /\ UNCHANGED <<now, grace>>
    BY <1>6 DEF DetectReuse, RevokeAsLoser
  <2>2. Remove({t \in Token : store[t].family \in {found[k].family}})
    BY <2>1 DEF Revoke
  <2>3. store' \in [Token -> Record] /\ \A u \in Token : Keeps(u)
    BY <2>2, RemoveTypes, RemoveEffect DEF TypeOK
  <2>4. FateTypes'
    <3>1. {found[k].family} \in SUBSET Family
      BY <1>6 DEF DetectReuse, RevokeAsLoser, Found, Holding
    <3> QED
      BY <2>1, <3>1, RevokeTypes DEF TypeOK
  <2> QED
    BY <2>1, <2>3, <2>4, <1>3
<1>7. ASSUME NEW k \in Call, Spend(k) PROVE TInv'
  <2>1. held[k] \in Token /\ pc[k] = "finding" /\ found[k].spentAt = Unspent
    BY <1>7 DEF Spend, Found, Holding
  <2>2. /\ pc' \in [Call -> Places] /\ UNCHANGED <<now, grace, held, found, mintAt, fate>>
        /\ \A j \in Call \ {k} : pc'[j] = pc[j]
        /\ pc'[k] \in {"resolving", "lost"}
    BY <1>7 DEF Spend, Goes, TypeOK, Places
  <2>3. store' = store \/ store' = [store EXCEPT ![held[k]].spentAt = now]
    BY <1>7 DEF Spend
  <2>4. store' \in [Token -> Record]
    <3>1. [store EXCEPT ![held[k]].spentAt = now]
            = [store EXCEPT ![held[k]] = [store[held[k]] EXCEPT !.spentAt = now]]
      OBVIOUS
    <3>2. [store[held[k]] EXCEPT !.spentAt = now] \in Record
      BY <2>1, RecordEdit DEF TypeOK
    <3> QED
      BY <2>1, <2>3, <3>1, <3>2 DEF TypeOK
  <2>5. \A u \in Token : store'[u].family = store[u].family
                         /\ store'[u].stored = store[u].stored
    <3>1. CASE store' = store
      BY <3>1
    <3>2. CASE store' = [store EXCEPT ![held[k]].spentAt = now]
      <4>1. store \in [Token -> Record] /\ \A u \in Token : store[u] \in Record
        BY DEF TypeOK
      <4> QED
        BY <2>1, <3>2, <4>1 DEF Record
    <3> QED
      BY <2>3, <3>1, <3>2
  <2>6. TypeOK'
    BY <2>2, <2>4 DEF TypeOK
  <2>7. Holding'
    BY <2>1, <2>2, <2>5 DEF Holding
  <2> QED
    BY <2>6, <2>7
<1>8. ASSUME NEW k \in Call, Resolve(k) PROVE TInv'
  <2>1. TypeOK'
    BY <1>8 DEF Resolve, TypeOK, Places
  <2>2. Holding'
    BY <1>8 DEF Resolve, TypeOK, Holding
  <2> QED
    BY <2>1, <2>2
<1>9. ASSUME NEW k \in Call, Fail(k) PROVE TInv'
  <2>1. CASE Returns(k)
    BY <1>3, <1>9, <2>1 DEF Fail, TypeOK, Keeps
  <2>2. CASE ~Returns(k)
    <3>1. Goes(k, "failed") /\ pc[k] \in {"resolving", "signing"} /\ UNCHANGED <<now, grace, store, fate>>
      BY <1>9, <2>2 DEF Fail
    <3>2. TypeOK'
      BY <3>1 DEF Goes, TypeOK, Places
    <3>3. Holding'
      BY <3>1 DEF Goes, TypeOK, Holding
    <3> QED
      BY <3>2, <3>3
  <2> QED
    BY <2>1, <2>2
<1>10. ASSUME NEW k \in Call, Unspend(k) PROVE TInv'
  <2>1. held[k] \in Token /\ found[k] \in Record /\ found[k].stored
        /\ store[held[k]].family = found[k].family /\ found[k].family \in Family
    BY <1>10 DEF Unspend, Holding, TypeOK
  <2>2. /\ SaveRecord(held[k], found[k]) /\ Returns(k) /\ UNCHANGED <<now, grace, ended, survivors>>
        /\ Survives(k)
    BY <1>10 DEF Unspend
  <2>3. store' \in [Token -> Record]
    BY <2>1, <2>2, SaveTypes DEF TypeOK
  <2>4. /\ \A u \in Token : store'[u].family = store[u].family
        /\ \A u \in Token : u # held[k] /\ store'[u].stored => store[u].stored
    <3>1. /\ store'[held[k]] = found[k]
          /\ \A u \in Token \ {held[k]} : Keeps(u)
      BY <2>1, <2>2, SaveEffect DEF TypeOK
    <3> QED
      BY <2>1, <3>1 DEF Keeps
  <2>5. TypeOK'
    BY <2>2, <2>3, ReturnTypes DEF TypeOK, Survives
  <2>6. Holding'
    <3>1. \A t \in Token : store'[t].stored => store'[t].family \in Family
      BY <2>1, <2>4 DEF Holding
    <3>2. \A j \in Call : pc'[j] = "idle" => found'[j].family = None
      BY <2>2 DEF Returns, TypeOK, Holding, NoRecord
    <3>3. \A j \in Call : pc'[j] # "idle" =>
            j # k /\ pc'[j] = pc[j] /\ held'[j] = held[j] /\ found'[j] = found[j]
      BY <2>2 DEF Returns, TypeOK
    <3> QED
      BY <2>4, <3>1, <3>2, <3>3 DEF Holding
  <2> QED
    BY <2>5, <2>6
<1>11. ASSUME NEW k \in Call, NEW t \in Token, SaveChild(k, t) PROVE TInv'
  <2>1. found[k].family \in Family /\ mintAt[k] \in Nat
    BY <1>11 DEF SaveChild, Holding, TypeOK
  <2>2. Mint(t, found[k].family, mintAt[k]) /\ Returns(k) /\ UNCHANGED <<now, grace, ended, survivors>>
        /\ Survives(k)
    BY <1>11 DEF SaveChild
  <2>3. store' \in [Token -> Record]
    BY <2>1, <2>2, MintTypes DEF TypeOK
  <2>4. TypeOK'
    BY <2>2, <2>3, ReturnTypes DEF TypeOK, Survives
  <2>5. /\ store[t].family = None /\ store'[t].family \in Family
        /\ \A u \in Token \ {t} : Keeps(u)
    BY <2>1, <2>2, MintEffect DEF TypeOK
  <2>6. Holding'
    <3>1. /\ pc'[k] = "idle" /\ found'[k].family = None
          /\ \A j \in Call \ {k} : pc'[j] = pc[j] /\ held'[j] = held[j] /\ found'[j] = found[j]
      BY <2>2 DEF Returns, TypeOK, NoRecord
    <3> QED
      BY <2>5, <3>1 DEF Holding, Keeps
  <2> QED
    BY <2>4, <2>6
<1>12. ASSUME NEW T, Remove(T), UNCHANGED <<now, grace, call>>,
              FateTypes'
       PROVE  TInv'
  <2>1. store' \in [Token -> Record] /\ \A u \in Token : Keeps(u)
    BY <1>12, RemoveTypes, RemoveEffect DEF TypeOK
  <2> QED
    <3>1. TypeOK'
      BY <1>12, <2>1 DEF TypeOK, call
    <3>2. Holding'
      BY <1>12, <2>1 DEF Holding, Keeps, call
    <3> QED
      BY <3>1, <3>2
<1>13. ASSUME NEW t \in Token, RevokeToken(t) PROVE TInv'
  <2>1. FateTypes'
    BY <1>13 DEF RevokeToken, TypeOK, FateTypes
  <2> QED
    BY <1>12, <1>13, <2>1 DEF RevokeToken
<1>14. ASSUME NEW u \in Subject, RevokeAll(u) PROVE TInv'
  <2>1. FateTypes'
    BY <1>14, RevokeTypes DEF RevokeAll, TypeOK, FateTypes
  <2> QED
    BY <1>12, <1>14, <2>1 DEF RevokeAll, Revoke
<1>15. CASE Tick
  <2>1. UNCHANGED <<grace, store, pc, held, found, mintAt, fate>> /\ now' = now + 1
    BY <1>15 DEF Tick, call
  <2>2. now' \in Nat
    <3>1. now \in Nat
      BY DEF TypeOK
    <3> QED
      BY <2>1, <3>1, SMTT(20)
  <2>3. TypeOK'
    BY <2>1, <2>2 DEF TypeOK
  <2>4. Holding'
    BY <2>1 DEF Holding
  <2> QED
    BY <2>3, <2>4
<1>16. CASE UNCHANGED vars
  BY <1>16 DEF vars, call, TypeOK, Holding
<1> QED
  BY <1>1, <1>2, <1>4, <1>5, <1>6, <1>7, <1>8, <1>9, <1>10, <1>11, <1>13, <1>14,
     <1>15, <1>16 DEF Next

LEMMA TInvHolds == Spec => []TInv
<1>1. Init => TInv
  BY RefreshAssumption DEF Init, TInv, TypeOK, Holding, NoRecord, Record, Places, Unspent
<1> QED
  BY <1>1, TStep, PTL DEF Spec

\* What the calls hold and the store keeps has its type in every reachable state.
THEOREM TypeOKTheorem == Spec => []TypeOK
  BY TInvHolds, PTL DEF TInv

-----------------------------------------------------------------------------
(* One live token under the strict policy.                                 *)

Rotating(k) == pc[k] \in {"resolving", "signing", "failed"}

\* A lineage's one chance to go on is a live token or a call that spent it.
Strict ==
  grace = 0 =>
    /\ OneLiveToken
    /\ \A k \in Call, t \in Token :
         Rotating(k) /\ Live(t) => store[t].family # found[k].family
    /\ \A k, l \in Call :
         Rotating(k) /\ Rotating(l) /\ found[k].family = found[l].family => k = l
    /\ \A k \in Call : pc[k] \notin {"grace resolving", "grace signing"}

\* Nothing becomes live, nobody begins to rotate: nothing is disturbed.
LEMMA StrictKept ==
  ASSUME TInv, Strict, grace' = grace,
         \A t \in Token : /\ store'[t].family = store[t].family
                          /\ Live(t)' => Live(t),
         \A k \in Call :
           /\ Rotating(k)' => Rotating(k) /\ found'[k] = found[k]
           /\ pc'[k] \in {"grace resolving", "grace signing"}
                => pc[k] \in {"grace resolving", "grace signing"}
  PROVE  Strict'
<1> SUFFICES ASSUME grace = 0 PROVE Strict'
  BY DEF Strict
<1>1. OneLiveToken'
  BY DEF Strict, OneLiveToken
<1>2. \A j \in Call, u \in Token :
        (Rotating(j) /\ Live(u))' => store'[u].family # found'[j].family
  BY DEF Strict
<1>3. \A j \in Call, l \in Call :
        (Rotating(j) /\ Rotating(l))' /\ found'[j].family = found'[l].family => j = l
  BY DEF Strict
<1>4. \A j \in Call : pc'[j] \notin {"grace resolving", "grace signing"}
  BY DEF Strict
<1> QED
  BY <1>1, <1>2, <1>3, <1>4 DEF Strict

LEMMA StrictStep == ASSUME TInv, Strict, [Next]_vars PROVE Strict'
<1> USE RefreshAssumption
<1>0. TypeOK /\ Holding
  BY DEF TInv
<1>1. ASSUME NEW f \in Family, NEW t \in Token, Issue(f, t) PROVE Strict'
  <2>1. Mint(t, f, now) /\ UNCHANGED <<grace, pc, found>> /\ Members(f) = {}
    BY <1>1 DEF Issue, call
  <2>2. /\ store'[t].family = f
        /\ \A u \in Token \ {t} : store'[u].family = store[u].family
                                  /\ (Live(u)' => Live(u)) /\ store[u].family # f
    BY <1>0, <2>1, MintEffect DEF TypeOK, Keeps, Live, Members
  <2>3. \A k \in Call : Rotating(k) => found[k].family # f
    BY <1>0, <2>1 DEF Holding, Members, Rotating
  <2> QED
    BY <2>1, <2>2, <2>3 DEF Strict, OneLiveToken, Rotating
<1>2. ASSUME NEW k \in Call, NEW t \in Token, Find(k, t) PROVE Strict'
  <2>1. /\ UNCHANGED <<grace, store>> /\ pc'[k] = "finding"
        /\ \A j \in Call \ {k} : pc'[j] = pc[j] /\ found'[j] = found[j]
    BY <1>0, <1>2 DEF Find, TypeOK
  <2> QED
    BY <2>1, StrictKept DEF Live, Rotating
<1>3. ASSUME NEW k \in Call, Returns(k), grace' = grace, \A u \in Token : Keeps(u)
      PROVE  Strict'
  <2>1. /\ pc'[k] = "idle"
        /\ \A j \in Call \ {k} : pc'[j] = pc[j] /\ found'[j] = found[j]
    BY <1>0, <1>3 DEF Returns, TypeOK
  <2> QED
    BY <1>3, <2>1, StrictKept DEF Keeps, Live, Rotating
<1>4. ASSUME NEW k \in Call, RejectExpired(k) PROVE Strict'
  BY <1>3, <1>4 DEF RejectExpired, Keeps
<1>5. ASSUME NEW k \in Call, RetryInGrace(k) PROVE Strict'
  <2>1. grace' = grace /\ grace > 0 /\ grace \in Nat
    BY <1>0, <1>5 DEF RetryInGrace, InGrace, TypeOK
  <2>2. grace' # 0
    BY <2>1
  <2> QED
    BY <2>2 DEF Strict
<1>6. ASSUME NEW k \in Call, DetectReuse(k) \/ RevokeAsLoser(k) PROVE Strict'
  <2>1. /\ Remove({t \in Token : store[t].family \in {found[k].family}})
        /\ Returns(k) /\ UNCHANGED <<now, grace>>
    BY <1>6 DEF DetectReuse, RevokeAsLoser, Revoke
  <2> QED
    BY <1>0, <1>3, <2>1, RemoveEffect DEF TypeOK
<1>7. ASSUME NEW k \in Call, Spend(k) PROVE Strict'
  <2>1. held[k] \in Token /\ store[held[k]].family = found[k].family
    BY <1>0, <1>7 DEF Spend, Found, Holding
  <2>2. UNCHANGED <<grace, found>>
    BY <1>7 DEF Spend, Goes
  <2>3. CASE Live(held[k])
    <3>1. /\ store' = [store EXCEPT ![held[k]].spentAt = now] /\ Goes(k, "resolving")
      BY <1>7, <2>3 DEF Spend
    <3>2. now # Unspent
      <4>1. now \in Nat
        BY <1>0 DEF TypeOK
      <4> QED
        BY <4>1, SMTT(20) DEF Unspent
    <3>3. /\ \A u \in Token : store'[u].family = store[u].family
          /\ \A u \in Token : Live(u)' => Live(u) /\ u # held[k]
      <4>1. \A u \in Token : store[u] \in Record
        BY <1>0 DEF TypeOK
      <4>2. \A u \in Token \ {held[k]} : store'[u] = store[u]
        BY <1>0, <2>1, <3>1 DEF TypeOK
      <4>3. store'[held[k]] = [store[held[k]] EXCEPT !.spentAt = now]
        BY <1>0, <2>1, <3>1 DEF TypeOK
      <4> QED
        BY <2>1, <3>2, <4>1, <4>2, <4>3 DEF Live, Record
    <3>4. /\ pc'[k] = "resolving" /\ \A j \in Call \ {k} : pc'[j] = pc[j]
      BY <1>0, <3>1 DEF Goes, TypeOK
    <3> QED
      <4> SUFFICES ASSUME grace = 0 PROVE Strict'
        BY <2>2 DEF Strict
      <4>1. OneLiveToken'
        BY <3>3 DEF Strict, OneLiveToken
      <4>2. \A u \in Token : Live(u)' => store[u].family # found[k].family
        BY <2>1, <2>3, <3>3 DEF Strict, OneLiveToken
      <4>3. \A j \in Call, u \in Token :
              (Rotating(j) /\ Live(u))' => store'[u].family # found'[j].family
        BY <2>2, <3>3, <3>4, <4>2 DEF Strict, Rotating
      <4>4. \A j \in Call : Rotating(j) => found[j].family # found[k].family
        BY <2>1, <2>3 DEF Strict
      <4>5. \A j \in Call, l \in Call :
              (Rotating(j) /\ Rotating(l))' /\ found'[j].family = found'[l].family => j = l
        BY <2>2, <3>4, <4>4 DEF Strict, Rotating
      <4> QED
        BY <3>4, <4>1, <4>3, <4>5 DEF Strict
  <2>4. CASE ~Live(held[k])
    <3>1. store' = store /\ Goes(k, "lost")
      BY <1>7, <2>4 DEF Spend
    <3>2. pc'[k] = "lost" /\ \A j \in Call \ {k} : pc'[j] = pc[j]
      BY <1>0, <3>1 DEF Goes, TypeOK
    <3> QED
      BY <2>2, <3>1, <3>2, StrictKept DEF Live, Rotating
  <2> QED
    BY <2>3, <2>4
<1>8. ASSUME NEW k \in Call, Resolve(k) PROVE Strict'
  <2>1. /\ UNCHANGED <<grace, store, found>>
        /\ \A j \in Call \ {k} : pc'[j] = pc[j]
        /\ \/ pc[k] = "resolving" /\ pc'[k] = "signing"
           \/ pc[k] = "grace resolving" /\ pc'[k] = "grace signing"
    BY <1>0, <1>8 DEF Resolve, TypeOK
  <2> QED
    BY <2>1, StrictKept DEF Live, Rotating
<1>9. ASSUME NEW k \in Call, Fail(k) PROVE Strict'
  <2>1. grace' = grace /\ \A u \in Token : Keeps(u)
    BY <1>9 DEF Fail, Keeps
  <2>2. CASE pc[k] \in {"resolving", "signing"}
    <3>1. Goes(k, "failed") /\ store' = store
      BY <1>9, <2>2 DEF Fail
    <3>2. /\ UNCHANGED <<grace, store, found>> /\ pc'[k] = "failed"
          /\ \A j \in Call \ {k} : pc'[j] = pc[j]
      BY <1>0, <2>1, <3>1 DEF Goes, TypeOK
    <3> QED
      BY <2>2, <3>2, StrictKept DEF Live, Rotating
  <2>3. CASE pc[k] \notin {"resolving", "signing"}
    <3>1. Returns(k)
      BY <1>9, <2>3 DEF Fail
    <3> QED
      BY <1>3, <2>1, <3>1
  <2> QED
    BY <2>2, <2>3
\* A rotation ends in one live token of its family, its child or the old one.
<1>10. ASSUME NEW k \in Call, NEW t \in Token, Rotating(k), Returns(k), grace' = grace,
              store'[t].family = found[k].family,
              \A u \in Token \ {t} : Keeps(u)
       PROVE  Strict'
  <2>1. /\ pc'[k] = "idle"
        /\ \A j \in Call \ {k} : pc'[j] = pc[j] /\ found'[j] = found[j]
    BY <1>0, <1>10 DEF Returns, TypeOK
  <2>2. \A u \in Token \ {t} : store'[u].family = store[u].family /\ (Live(u)' => Live(u))
    BY <1>10 DEF Keeps, Live
  <2> QED
    <3> SUFFICES ASSUME grace = 0 PROVE Strict'
      BY <1>10 DEF Strict
    <3>1. \A u \in Token \ {t} : Live(u)' => store'[u].family # found[k].family
      BY <1>10, <2>2 DEF Strict
    <3>2. OneLiveToken'
      BY <1>10, <2>2, <3>1 DEF Strict, OneLiveToken
    <3>3. \A j \in Call \ {k} : Rotating(j) => found[j].family # found[k].family
      BY <1>10 DEF Strict
    <3>4. \A j \in Call, u \in Token :
            (Rotating(j) /\ Live(u))' => store'[u].family # found'[j].family
      <4> SUFFICES ASSUME NEW j \in Call, NEW u \in Token, Rotating(j)', Live(u)'
                   PROVE  store'[u].family # found'[j].family
        OBVIOUS
      <4>1. j # k /\ Rotating(j) /\ found'[j] = found[j]
        BY <2>1 DEF Rotating
      <4>2. CASE u = t
        BY <1>10, <3>3, <4>1, <4>2
      <4>3. CASE u # t
        BY <2>2, <4>1, <4>3 DEF Strict
      <4> QED
        BY <4>2, <4>3
    <3>5. \A j \in Call, l \in Call :
            (Rotating(j) /\ Rotating(l))' /\ found'[j].family = found'[l].family => j = l
      BY <2>1 DEF Strict, Rotating
    <3> QED
      BY <2>1, <3>2, <3>4, <3>5 DEF Strict
<1>11. ASSUME NEW k \in Call, Unspend(k) PROVE Strict'
  <2>1. /\ pc[k] = "failed" /\ held[k] \in Token
        /\ SaveRecord(held[k], found[k]) /\ Returns(k) /\ UNCHANGED <<now, grace>>
    BY <1>0, <1>11 DEF Unspend, Holding
  <2>2. store'[held[k]] = found[k] /\ \A u \in Token \ {held[k]} : Keeps(u)
    BY <1>0, <2>1, SaveEffect DEF TypeOK
  <2> QED
    BY <1>10, <2>1, <2>2 DEF Rotating
<1>12. ASSUME NEW k \in Call, NEW t \in Token, SaveChild(k, t) PROVE Strict'
  <2>1. /\ Mint(t, found[k].family, mintAt[k]) /\ Returns(k) /\ UNCHANGED <<now, grace>>
        /\ pc[k] \in {"signing", "grace signing"} /\ found[k].family \in Family
    BY <1>0, <1>12 DEF SaveChild, Holding
  <2>2. store'[t].family = found[k].family /\ \A u \in Token \ {t} : Keeps(u)
    BY <1>0, <2>1, MintEffect DEF TypeOK
  <2>3. CASE pc[k] = "signing"
    BY <1>10, <2>1, <2>2, <2>3 DEF Rotating
  <2>4. CASE pc[k] = "grace signing"
    BY <2>1, <2>4 DEF Strict
  <2> QED
    BY <2>1, <2>3, <2>4
<1>13. ASSUME NEW T, Remove(T), UNCHANGED <<grace, call>> PROVE Strict'
  BY <1>0, <1>13, RemoveEffect, StrictKept DEF TypeOK, Keeps, Live, Rotating, call
<1>14. ASSUME NEW t \in Token, RevokeToken(t) PROVE Strict'
  BY <1>13, <1>14 DEF RevokeToken
<1>15. ASSUME NEW u \in Subject, RevokeAll(u) PROVE Strict'
  BY <1>13, <1>15 DEF RevokeAll, Revoke
<1>16. CASE Tick \/ UNCHANGED vars
  BY <1>16, StrictKept DEF Tick, vars, call, Live, Rotating
<1> QED
  BY <1>1, <1>2, <1>4, <1>5, <1>6, <1>7, <1>8, <1>9, <1>11, <1>12, <1>14, <1>15, <1>16
     DEF Next

\* Under the strict policy no interleaving of redemptions, failures, revocations
\* and mints in flight leaves a family with two redeemable tokens.
THEOREM OneLiveTokenTheorem == Spec => []OneLiveToken
<1>1. Init => Strict
  BY DEF Init, Strict, OneLiveToken, Live, NoRecord, Rotating
<1>2. Strict => OneLiveToken
  BY DEF Strict, OneLiveToken
<1> QED
  BY <1>1, <1>2, StrictStep, TInvHolds, PTL DEF Spec

-----------------------------------------------------------------------------
(* Revocation.                                                             *)

\* The calls that work for a family.
Workers(f) == {k \in Call : found[k].family = f}

\* A revoked family has members. Unless a survivor saved one none is stored, and
\* only survivors work for it.
Buried ==
  \A f \in Family : ended[f] = "revoked" =>
    /\ \E t \in Token : store[t].family = f
    /\ f \notin reborn => /\ \A t \in Token : store[t].family = f => ~store[t].stored
                          /\ Workers(f) \subseteq survivors[f]

LEMMA BuriedKept ==
  ASSUME TInv, Buried, ended' = ended, survivors' = survivors, reborn \subseteq reborn',
         \A t \in Token : store'[t].family = store[t].family \/ store[t].family \notin Family,
         \A t \in Token : store'[t].stored /\ ~store[t].stored =>
            \/ \E k \in Call :
                 /\ store'[t].family = found[k].family
                 /\ k \in survivors[found[k].family] => found[k].family \in reborn'
            \/ store'[t].family \in Family
               /\ \A u \in Token : store[u].family # store'[t].family,
         \A k \in Call : \/ found'[k].family \notin Family
                         \/ found'[k] = found[k]
                         \/ \E t \in Token : store[t].stored /\ found'[k] = store[t]
  PROVE  Buried'
<1> SUFFICES ASSUME NEW f \in Family, ended[f] = "revoked"
             PROVE  /\ \E t \in Token : store'[t].family = f
                    /\ f \notin reborn' =>
                         /\ \A t \in Token : store'[t].family = f => ~store'[t].stored
                         /\ \A k \in Call : found'[k].family = f => k \in survivors[f]
  BY DEF Buried, Workers
<1>1. PICK t \in Token : store[t].family = f
  BY DEF Buried
<1>2. store'[t].family = f
  BY <1>1
<1>3. SUFFICES ASSUME f \notin reborn'
               PROVE  /\ \A u \in Token : store'[u].family = f => ~store'[u].stored
                      /\ \A k \in Call : found'[k].family = f => k \in survivors[f]
  BY <1>2
<1>4. /\ \A u \in Token : store[u].family = f => ~store[u].stored
      /\ \A k \in Call : found[k].family = f => k \in survivors[f]
  BY <1>3 DEF Buried, Workers
<1>5. ASSUME NEW u \in Token, store'[u].family = f PROVE ~store'[u].stored
  <2>1. ~store[u].stored
    BY <1>4, <1>5 DEF TInv, Holding
  <2>2. ASSUME NEW k \in Call, found[k].family = f,
               k \in survivors[f] => f \in reborn'
        PROVE  FALSE
    BY <1>3, <1>4, <2>2
  <2> QED
    BY <1>1, <1>5, <2>1, <2>2
<1>6. ASSUME NEW k \in Call, found'[k].family = f PROVE k \in survivors[f]
  BY <1>4, <1>6
<1> QED
  BY <1>5, <1>6

\* A revocation of the families F by call `by`, or by nobody.
LEMMA BuriedByRevoke ==
  ASSUME TInv, Buried, NEW F \in SUBSET Family, NEW by, Revoke(F, by),
         \A f \in F : \E t \in Token : store[t].family = f,
         \A k \in Call : IF k = by THEN found'[k] = NoRecord ELSE found'[k] = found[k]
  PROVE  Buried'
<1> USE RefreshAssumption
<1> DEFINE T == {t \in Token : store[t].family \in F}
<1>1. \A u \in Token : Keeps(u) /\ (store'[u].stored => u \notin T)
  BY RemoveEffect DEF Revoke, TInv, TypeOK
<1>2. \A k \in Call, f \in Family : found'[k].family = f => found[k].family = f /\ k # by
  BY DEF NoRecord
<1> SUFFICES ASSUME NEW f \in Family, ended'[f] = "revoked"
             PROVE  /\ \E t \in Token : store'[t].family = f
                    /\ f \notin reborn' =>
                         /\ \A t \in Token : store'[t].family = f => ~store'[t].stored
                         /\ \A k \in Call : found'[k].family = f => k \in survivors'[f]
  BY DEF Buried, Workers
<1>3. CASE f \in F
  <2>1. survivors'[f] = {k \in Call \ {by} : found[k].family = f}
    BY <1>3 DEF Revoke
  <2> QED
    BY <1>1, <1>2, <1>3, <2>1 DEF Keeps
<1>4. CASE f \notin F
  <2>1. ended[f] = "revoked" /\ survivors'[f] = survivors[f] /\ (f \in reborn => f \in reborn')
    BY <1>4 DEF Revoke
  <2> QED
    BY <1>1, <1>2, <2>1 DEF Buried, Workers, Keeps
<1> QED
  BY <1>3, <1>4

LEMMA BuriedStep == ASSUME TInv, Buried, [Next]_vars PROVE Buried'
<1> USE RefreshAssumption DEF fate
<1>0. TypeOK /\ Holding
  BY DEF TInv
<1>1. ASSUME NEW f \in Family, NEW t \in Token, Issue(f, t) PROVE Buried'
  <2>1. Mint(t, f, now) /\ UNCHANGED <<found, fate>> /\ Members(f) = {}
    BY <1>1 DEF Issue, call
  <2>2. /\ store[t].family = None /\ store'[t].family = f
        /\ \A u \in Token \ {t} : Keeps(u)
    BY <1>0, <2>1, MintEffect DEF TypeOK
  <2>3. \A u \in Token : store[u].family # f
    BY <2>1 DEF Members
  <2> QED
    BY <2>1, <2>2, <2>3, BuriedKept DEF Keeps
<1>2. ASSUME NEW k \in Call, NEW t \in Token, Find(k, t) PROVE Buried'
  <2>1. /\ UNCHANGED <<store, fate>> /\ store[t].stored /\ found'[k] = store[t]
        /\ \A j \in Call \ {k} : found'[j] = found[j]
    BY <1>0, <1>2 DEF Find, TypeOK
  <2> QED
    BY <2>1, BuriedKept
<1>3. ASSUME UNCHANGED <<store, fate>>, UNCHANGED found \/ \E k \in Call : Returns(k)
      PROVE  Buried'
  <2>1. \A j \in Call : found'[j].family = None \/ found'[j] = found[j]
    <3>1. CASE UNCHANGED found
      BY <3>1
    <3>2. ASSUME NEW k \in Call, Returns(k)
          PROVE  \A j \in Call : found'[j].family = None \/ found'[j] = found[j]
      BY <1>0, <3>2 DEF Returns, TypeOK, NoRecord
    <3> QED
      BY <1>3, <3>1, <3>2
  <2> QED
    BY <1>3, <2>1, BuriedKept
<1>4. ASSUME NEW k \in Call, RejectExpired(k) PROVE Buried'
  BY <1>3, <1>4 DEF RejectExpired
<1>5. ASSUME NEW k \in Call, RetryInGrace(k) PROVE Buried'
  BY <1>3, <1>5 DEF RetryInGrace, Goes
<1>6. ASSUME NEW k \in Call, DetectReuse(k) \/ RevokeAsLoser(k) PROVE Buried'
  <2>1. /\ Revoke({found[k].family}, k) /\ Returns(k)
        /\ found[k].family \in Family /\ held[k] \in Token
        /\ store[held[k]].family = found[k].family
    BY <1>0, <1>6 DEF DetectReuse, RevokeAsLoser, Found, Holding
  <2>2. \A j \in Call : IF j = k THEN found'[j] = NoRecord ELSE found'[j] = found[j]
    BY <1>0, <2>1 DEF Returns, TypeOK
  <2>3. /\ {found[k].family} \in SUBSET Family
        /\ \A f \in {found[k].family} : \E t \in Token : store[t].family = f
    BY <2>1
  <2> QED
    BY <2>1, <2>2, <2>3, BuriedByRevoke
<1>7. ASSUME NEW k \in Call, Spend(k) PROVE Buried'
  <2>1. UNCHANGED <<found, fate>> /\ held[k] \in Token
    BY <1>0, <1>7 DEF Spend, Found, Holding, Goes
  <2>2. store' = store \/ store' = [store EXCEPT ![held[k]].spentAt = now]
    BY <1>7 DEF Spend
  <2>3. \A u \in Token : store'[u].family = store[u].family
                         /\ store'[u].stored = store[u].stored
    <3>1. CASE store' = store
      BY <3>1
    <3>2. CASE store' = [store EXCEPT ![held[k]].spentAt = now]
      <4>1. store \in [Token -> Record] /\ \A u \in Token : store[u] \in Record
        BY <1>0 DEF TypeOK
      <4> QED
        BY <2>1, <3>2, <4>1 DEF Record
    <3> QED
      BY <2>2, <3>1, <3>2
  <2> QED
    BY <2>1, <2>3, BuriedKept
<1>8. ASSUME NEW k \in Call, Resolve(k) PROVE Buried'
  BY <1>3, <1>8 DEF Resolve
<1>9. ASSUME NEW k \in Call, Fail(k) PROVE Buried'
  <2>1. UNCHANGED <<store, fate>>
    BY <1>9 DEF Fail
  <2>2. UNCHANGED found \/ Returns(k)
    <3>1. CASE pc[k] \in {"resolving", "signing"}
      BY <1>9, <3>1 DEF Fail, Goes
    <3>2. CASE pc[k] \notin {"resolving", "signing"}
      BY <1>9, <3>2 DEF Fail
    <3> QED
      BY <3>1, <3>2
  <2> QED
    BY <1>3, <2>1, <2>2
<1>10. ASSUME NEW k \in Call, Unspend(k) PROVE Buried'
  <2>1. /\ held[k] \in Token /\ store[held[k]].family = found[k].family
        /\ SaveRecord(held[k], found[k]) /\ Returns(k) /\ UNCHANGED <<ended, survivors>>
        /\ Survives(k) /\ k \in Call /\ found[k].family \in Family
    BY <1>0, <1>10 DEF Unspend, Holding
  <2>2. store'[held[k]] = found[k] /\ \A u \in Token \ {held[k]} : Keeps(u)
    BY <1>0, <2>1, SaveEffect DEF TypeOK
  <2>3. \A j \in Call : found'[j].family = None \/ found'[j] = found[j]
    BY <1>0, <2>1 DEF Returns, TypeOK, NoRecord
  <2>4. reborn \subseteq reborn' /\ (k \in survivors[found[k].family] => found[k].family \in reborn')
    BY <2>1 DEF Survives
  <2> QED
    BY <2>1, <2>2, <2>3, <2>4, BuriedKept DEF Keeps
<1>11. ASSUME NEW k \in Call, NEW t \in Token, SaveChild(k, t) PROVE Buried'
  <2>1. /\ Mint(t, found[k].family, mintAt[k]) /\ Returns(k) /\ UNCHANGED <<ended, survivors>>
        /\ Survives(k) /\ k \in Call /\ found[k].family \in Family
    BY <1>0, <1>11 DEF SaveChild, Holding
  <2>2. /\ store[t].family = None /\ store'[t].family = found[k].family
        /\ \A u \in Token \ {t} : Keeps(u)
    BY <1>0, <2>1, MintEffect DEF TypeOK
  <2>3. \A j \in Call : found'[j].family = None \/ found'[j] = found[j]
    BY <1>0, <2>1 DEF Returns, TypeOK, NoRecord
  <2>4. reborn \subseteq reborn' /\ (k \in survivors[found[k].family] => found[k].family \in reborn')
    BY <2>1 DEF Survives
  <2> QED
    BY <2>1, <2>2, <2>3, <2>4, BuriedKept DEF Keeps
<1>12. ASSUME NEW t \in Token, RevokeToken(t) PROVE Buried'
  <2>1. Remove({t}) /\ UNCHANGED <<found, survivors, reborn>>
        /\ \A f \in Family : ended'[f] = "revoked" => ended[f] = "revoked"
    BY <1>0, <1>12 DEF RevokeToken, call, TypeOK
  <2>2. \A u \in Token : Keeps(u)
    BY <1>0, <2>1, RemoveEffect DEF TypeOK
  <2> QED
    BY <2>1, <2>2 DEF Buried, Workers, Keeps
<1>13. ASSUME NEW u \in Subject, RevokeAll(u) PROVE Buried'
  <2> DEFINE F == {f \in Family : SubjectOf[f] = u /\ Members(f) # {}}
  <2>1. Revoke(F, None) /\ UNCHANGED found
    BY <1>13 DEF RevokeAll, call
  <2>2. \A f \in F : \E t \in Token : store[t].family = f
    BY DEF Members
  <2>3. \A k \in Call : IF k = None THEN found'[k] = NoRecord ELSE found'[k] = found[k]
    BY <2>1
  <2> QED
    BY <2>1, <2>2, <2>3, BuriedByRevoke
<1>14. CASE Tick \/ UNCHANGED vars
  BY <1>14 DEF Tick, vars, call, Buried, Workers
<1> QED
  BY <1>1, <1>2, <1>4, <1>5, <1>6, <1>7, <1>8, <1>9, <1>10, <1>11, <1>12, <1>13, <1>14
     DEF Next

\* A revoked family has no token in the store unless a call under way at the
\* revocation saved one since: no other late answer, undone spend or retry does.
THEOREM RevokedStaysRevokedTheorem == Spec => []RevokedStaysRevoked
<1>1. Init => Buried
  BY DEF Init, Buried
<1>2. Buried => RevokedStaysRevoked
  BY DEF Buried, RevokedStaysRevoked, Members
<1> QED
  BY <1>1, <1>2, BuriedStep, TInvHolds, PTL DEF Spec
-----------------------------------------------------------------------------
(* No refresh burns its session.                                           *)

Redeemable(t, f) ==
  /\ store[t].family = f /\ store[t].spentAt = Unspent
  /\ store[t].stored \/ Expired(store[t])

\* The family has a token to redeem, or a call about to make one.
Continues(f) ==
  \/ \E t \in Token : Redeemable(t, f)
  \/ \E k \in Call : Rotates(k, f)

\* What does not spend, remove or give up leaves a family as redeemable as it was.
LEMMA ContinuesKept ==
  ASSUME TInv, NEW f \in Family, Continues(f), now' = now \/ now' = now + 1,
         \A u \in Token : store[u].family = f =>
           Keeps(u) /\ (store'[u].stored \/ Expired(store[u]) \/ ~store[u].stored),
         \A k \in Call : Rotates(k, f) => Rotates(k, f)'
  PROVE  Continues(f)'
<1>1. ASSUME NEW t \in Token, Redeemable(t, f) PROVE Redeemable(t, f)'
  <2>1. store'[t].family = f /\ store'[t].spentAt = Unspent /\ store'[t].expiresAt = store[t].expiresAt
    BY <1>1 DEF Redeemable, Keeps
  <2>2. store'[t].stored \/ Expired(store[t])
    BY <1>1 DEF Redeemable
  <2>3. now \in Nat /\ store[t].expiresAt \in Nat
    BY DEF TInv, TypeOK, Record
  <2> QED
    BY <2>1, <2>2, <2>3 DEF Redeemable, Expired
<1> QED
  BY <1>1 DEF Continues

\* A call that is not rotating returns, or any call stays where it is.
LEMMA RotatesKept ==
  ASSUME TInv, NEW f \in Family, NEW k \in Call, Returns(k), ~Rotates(k, f), NEW j \in Call, Rotates(j, f)
  PROVE  Rotates(j, f)'
  BY DEF Returns, TInv, TypeOK, Rotates

LEMMA BurnStep == ASSUME TInv, NotBurned, [Next]_vars PROVE NotBurned'
<1> USE RefreshAssumption
<1>0. TypeOK /\ Holding /\ store \in [Token -> Record]
  BY DEF TInv, TypeOK
<1> USE DEF fate
<1>1. SUFFICES ASSUME NEW f \in Family, Members(f)' # {}, ended'[f] = "no" PROVE Continues(f)'
  BY DEF NotBurned, Continues, Redeemable, Members
<1>2. Members(f) # {} /\ ended[f] = "no" => Continues(f)
  BY DEF NotBurned, Continues, Redeemable, Members
<1>3. ASSUME NEW t \in Token, store'[t].family = f, store'[t].spentAt = Unspent, store'[t].stored
      PROVE  Continues(f)'
  BY <1>3 DEF Continues, Redeemable
<1>4. ASSUME NEW g \in Family, NEW t \in Token, Issue(g, t) PROVE Continues(f)'
  <2>1. Mint(t, g, now) /\ UNCHANGED <<pc, found, fate, now>>
    BY <1>4 DEF Issue, call
  <2>2. /\ store[t].family = None /\ store'[t].family = g /\ store'[t].spentAt = Unspent /\ store'[t].stored
        /\ \A u \in Token \ {t} :
             Keeps(u) /\ (store'[u].stored <=> store[u].stored /\ ~Expired(store[u]))
    BY <1>0, <2>1, MintEffect
  <2>3. CASE f = g
    BY <1>3, <2>2, <2>3
  <2>4. CASE f # g
    <3>1. Members(f) # {} /\ ended[f] = "no"
      BY <1>1, <2>1, <2>2, <2>4 DEF Members, Keeps
    <3> QED
      BY <1>2, <2>1, <2>2, <3>1, ContinuesKept DEF Rotates
  <2> QED
    BY <2>3, <2>4
<1>5. ASSUME UNCHANGED <<store, fate>>, now' = now \/ now' = now + 1,
             \A j \in Call : Rotates(j, f) => Rotates(j, f)'
      PROVE  Continues(f)'
  <2>1. Members(f) # {} /\ ended[f] = "no"
    BY <1>1, <1>5 DEF Members
  <2>2. \A u \in Token : Keeps(u)
    BY <1>5 DEF Keeps
  <2>3. \A u \in Token : store'[u].stored \/ ~store[u].stored
    BY <1>5
  <2> QED
    BY <1>2, <1>5, <2>1, <2>2, <2>3, ContinuesKept
<1>6. ASSUME NEW k \in Call, NEW t \in Token, Find(k, t) PROVE Continues(f)'
  <2>1. \A j \in Call : Rotates(j, f) => Rotates(j, f)'
    BY <1>0, <1>6 DEF Find, TypeOK, Rotates
  <2> QED
    BY <1>5, <1>6, <2>1 DEF Find
<1>7. ASSUME NEW k \in Call, RejectExpired(k) PROVE Continues(f)'
  <2>1. Returns(k) /\ ~Rotates(k, f)
    BY <1>7 DEF RejectExpired, Found, Rotates
  <2> QED
    BY <1>5, <1>7, <2>1, RotatesKept DEF RejectExpired
<1>8. ASSUME NEW k \in Call, RetryInGrace(k) \/ Resolve(k) PROVE Continues(f)'
  <2>1. \A j \in Call : Rotates(j, f) => Rotates(j, f)'
    BY <1>0, <1>8 DEF RetryInGrace, Resolve, Found, Goes, TypeOK, Rotates
  <2> QED
    BY <1>5, <1>8, <2>1 DEF RetryInGrace, Resolve
<1>9. ASSUME NEW F, NEW by, Revoke(F, by), now' = now,
             \A j \in Call : Rotates(j, f) => Rotates(j, f)', F = F \cap Family
      PROVE  Continues(f)'
  <2>1. f \notin F /\ ended[f] = "no"
    BY <1>1, <1>9 DEF Revoke
  <2>2. \A u \in Token : Keeps(u) /\ (store'[u].stored <=> store[u].stored /\ store[u].family \notin F)
    BY <1>0, <1>9, RemoveEffect DEF Revoke
  <2>3. Members(f) # {}
    BY <1>1, <2>2 DEF Members, Keeps
  <2> QED
    BY <1>2, <1>9, <2>1, <2>2, <2>3, ContinuesKept
<1>10. ASSUME NEW k \in Call, DetectReuse(k) \/ RevokeAsLoser(k) PROVE Continues(f)'
  <2>1. Revoke({found[k].family}, k) /\ Returns(k) /\ ~Rotates(k, f) /\ now' = now
        /\ found[k].family \in Family
    BY <1>0, <1>10 DEF DetectReuse, RevokeAsLoser, Found, Rotates, Holding
  <2> QED
    BY <1>9, <2>1, RotatesKept
<1>11. ASSUME NEW k \in Call, Spend(k) PROVE Continues(f)'
  <2>1. /\ UNCHANGED <<found, fate, now>> /\ held[k] \in Token /\ pc[k] = "finding"
        /\ store[held[k]].family = found[k].family
    BY <1>0, <1>11 DEF Spend, Found, Holding, Goes
  <2>2. CASE Live(held[k])
    <3>1. pc'[k] = "resolving" /\ \A j \in Call \ {k} : pc'[j] = pc[j]
      BY <1>0, <1>11, <2>2 DEF Spend, Goes, TypeOK
    <3>2. CASE found[k].family = f
      BY <2>1, <3>1, <3>2 DEF Continues, Rotates
    <3>3. CASE found[k].family # f
      <4>1. \A u \in Token \ {held[k]} : store'[u] = store[u]
        BY <1>0, <1>11, <2>2 DEF Spend
      <4>2. store'[held[k]].family = store[held[k]].family
        BY <1>0, <1>11, <2>1, <2>2 DEF Spend, Record
      <4>3. Members(f) # {} /\ ended[f] = "no"
        BY <1>1, <2>1, <3>3, <4>1, <4>2 DEF Members
      <4>4. \A u \in Token : store[u].family = f => Keeps(u) /\ store'[u] = store[u]
        BY <2>1, <3>3, <4>1 DEF Keeps
      <4>5. \A j \in Call : Rotates(j, f) => Rotates(j, f)'
        BY <2>1, <3>1 DEF Rotates
      <4> QED
        BY <1>2, <2>1, <4>3, <4>4, <4>5, ContinuesKept
    <3> QED
      BY <3>2, <3>3
  <2>3. CASE ~Live(held[k])
    <3>1. store' = store /\ \A j \in Call \ {k} : pc'[j] = pc[j]
      BY <1>0, <1>11, <2>3 DEF Spend, Goes, TypeOK
    <3> QED
      BY <1>5, <2>1, <3>1 DEF Rotates
  <2> QED
    BY <2>2, <2>3
<1>12. ASSUME NEW k \in Call, Fail(k) PROVE Continues(f)'
  <2>1. \A j \in Call : Rotates(j, f) => Rotates(j, f)'
    <3>1. CASE pc[k] \in {"resolving", "signing"}
      BY <1>0, <1>12, <3>1 DEF Fail, Goes, TypeOK, Rotates
    <3>2. CASE pc[k] \notin {"resolving", "signing"}
      <4>1. Returns(k) /\ ~Rotates(k, f)
        BY <1>12, <3>2 DEF Fail, Rotates
      <4> QED
        BY <4>1, RotatesKept
    <3> QED
      BY <3>1, <3>2
  <2> QED
    BY <1>5, <1>12, <2>1 DEF Fail
<1>13. ASSUME NEW k \in Call, NEW t \in Token, NEW g \in Family, Returns(k), UNCHANGED <<ended, now>>,
              Rotates(k, f) => g = f,
              store'[t].family = g, store'[t].spentAt = Unspent, store'[t].stored,
              store[t].family \in {g, None},
              \A u \in Token \ {t} :
                Keeps(u) /\ (store'[u].stored <=> store[u].stored /\ ~Expired(store[u]))
       PROVE  Continues(f)'
  <2>1. CASE f = g
    BY <1>3, <1>13, <2>1
  <2>2. CASE f # g
    <3>1. Members(f) # {} /\ ended[f] = "no"
      BY <1>1, <1>13, <2>2 DEF Members, Keeps
    <3>2. \A j \in Call : Rotates(j, f) => Rotates(j, f)'
      BY <1>13, <2>2, RotatesKept
    <3>3. \A u \in Token : store[u].family = f =>
            Keeps(u) /\ (store'[u].stored \/ Expired(store[u]) \/ ~store[u].stored)
      BY <1>13, <2>2
    <3> QED
      BY <1>2, <1>13, <3>1, <3>2, <3>3, ContinuesKept
  <2> QED
    BY <2>1, <2>2
<1>14. ASSUME NEW k \in Call, Unspend(k) PROVE Continues(f)'
  <2>1. /\ held[k] \in Token /\ store[held[k]].family = found[k].family
        /\ found[k].family \in Family /\ found[k].stored /\ found[k].spentAt = Unspent
        /\ SaveRecord(held[k], found[k]) /\ Returns(k) /\ UNCHANGED <<ended, now>>
    BY <1>0, <1>14 DEF Unspend, Holding
  <2>2. /\ store'[held[k]] = found[k]
        /\ \A u \in Token \ {held[k]} :
             Keeps(u) /\ (store'[u].stored <=> store[u].stored /\ ~Expired(store[u]))
    BY <1>0, <2>1, SaveEffect
  <2> QED
    BY <1>13, <2>1, <2>2 DEF Rotates
<1>15. ASSUME NEW k \in Call, NEW t \in Token, SaveChild(k, t) PROVE Continues(f)'
  <2>1. /\ Mint(t, found[k].family, mintAt[k]) /\ Returns(k) /\ UNCHANGED <<ended, now>>
        /\ found[k].family \in Family
    BY <1>0, <1>15 DEF SaveChild, Holding
  <2>2. /\ store[t].family = None /\ store'[t].family = found[k].family
        /\ store'[t].spentAt = Unspent /\ store'[t].stored
        /\ \A u \in Token \ {t} :
             Keeps(u) /\ (store'[u].stored <=> store[u].stored /\ ~Expired(store[u]))
    BY <1>0, <2>1, MintEffect
  <2> QED
    BY <1>13, <2>1, <2>2 DEF Rotates
<1>16. ASSUME NEW t \in Token, RevokeToken(t) PROVE Continues(f)'
  <2>1. Remove({t}) /\ UNCHANGED <<pc, found, now>> /\ store[t].family \in Family
        /\ ended' = [ended EXCEPT ![store[t].family] = IF @ = "no" THEN "logged out" ELSE @]
    BY <1>0, <1>16 DEF RevokeToken, call, Holding
  <2>2. store[t].family # f /\ ended[f] = "no"
    BY <1>0, <1>1, <2>1 DEF TypeOK
  <2>3. \A u \in Token : Keeps(u) /\ (store'[u].stored <=> store[u].stored /\ u \notin {t})
    BY <1>0, <2>1, RemoveEffect
  <2>4. Members(f) # {}
    BY <1>1, <2>3 DEF Members, Keeps
  <2>5. \A u \in Token : store[u].family = f => Keeps(u) /\ (store'[u].stored \/ ~store[u].stored)
    BY <2>2, <2>3
  <2>6. \A j \in Call : Rotates(j, f) => Rotates(j, f)'
    BY <2>1 DEF Rotates
  <2> QED
    BY <1>2, <2>1, <2>2, <2>4, <2>5, <2>6, ContinuesKept
<1>17. ASSUME NEW u \in Subject, RevokeAll(u) PROVE Continues(f)'
  <2> DEFINE F == {g \in Family : SubjectOf[g] = u /\ Members(g) # {}}
  <2>1. Revoke(F, None) /\ UNCHANGED <<pc, found, now>> /\ F = F \cap Family
    BY <1>17 DEF RevokeAll, call
  <2>2. \A j \in Call : Rotates(j, f) => Rotates(j, f)'
    BY <2>1 DEF Rotates
  <2> HIDE DEF F
  <2> QED
    BY <1>9, <2>1, <2>2
<1>18. CASE Tick \/ UNCHANGED vars
  BY <1>5, <1>18 DEF Tick, vars, call, Rotates
<1> QED
  BY <1>4, <1>6, <1>7, <1>8, <1>10, <1>11, <1>12, <1>14, <1>15, <1>16, <1>17, <1>18 DEF Next

\* A refresh that fails, loses its race or is retried never leaves a family that
\* nobody revoked without a token to redeem or a call about to mint one.
THEOREM NotBurnedTheorem == Spec => []NotBurned
<1>1. Init => NotBurned
  BY RefreshAssumption DEF Init, NotBurned, Members, NoRecord
<1> QED
  BY <1>1, BurnStep, TInvHolds, PTL DEF Spec

-----------------------------------------------------------------------------
(* AuthSession: the tabs of a browser share one session.                   *)

USE DEF NoPair, Refused, Pair

-----------------------------------------------------------------------------
(* AuthSession: storage events.                                            *)

Hears(t, v) == \E i \in 1..Len(events[t]) : events[t][i] = v

\* The last event on its way to the tab carries what is cached now.
Catches(t) == Len(events[t]) > 0 /\ events[t][Len(events[t])] = cache

LEMMA Appended ==
  ASSUME NEW s \in Seq(Nat), NEW p \in Nat
  PROVE  /\ Append(s, p) \in Seq(Nat) /\ Len(Append(s, p)) = Len(s) + 1
         /\ Append(s, p)[Len(s) + 1] = p
         /\ \A i \in 1..Len(s) : Append(s, p)[i] = s[i]
  OBVIOUS

LEMMA Removed ==
  ASSUME NEW s \in Seq(Nat), s # <<>>
  PROVE  /\ Tail(s) \in Seq(Nat) /\ Len(Tail(s)) = Len(s) - 1 /\ Len(s) \in Nat \ {0}
         /\ Head(s) = s[1]
         /\ \A i \in 1..Len(Tail(s)) : Tail(s)[i] = s[i + 1]
  OBVIOUS

LEMMA WriteEffect ==
  ASSUME events \in [Tab -> Seq(Nat)], NEW t \in Tab, NEW p \in Nat, CacheWrite(t, p)
  PROVE  /\ cache' = p /\ events' \in [Tab -> Seq(Nat)]
         /\ \A u \in Tab, v \in Nat : Hears(u, v)' => Hears(u, v) \/ (v = p /\ u # t)
         /\ p # cache => \A u \in Tab \ {t} : Catches(u)'
         /\ p = cache => \A u \in Tab : Catches(u) => Catches(u)'
<1>1. CASE p = cache
  BY <1>1 DEF CacheWrite, Hears, Catches
<1>2. CASE p # cache
  <2>1. /\ cache' = p /\ events' \in [Tab -> Seq(Nat)]
        /\ events'[t] = events[t] /\ \A u \in Tab \ {t} : events'[u] = Append(events[u], p)
    BY <1>2, Appended DEF CacheWrite
  <2>2. ASSUME NEW u \in Tab \ {t}
        PROVE  Catches(u)' /\ \A v \in Nat : Hears(u, v)' => Hears(u, v) \/ v = p
    <3>1. events[u] \in Seq(Nat) /\ events'[u] = Append(events[u], p) /\ Len(events[u]) \in Nat
      BY <2>1
    <3>2. /\ Len(events'[u]) = Len(events[u]) + 1 /\ events'[u][Len(events[u]) + 1] = p
          /\ \A i \in 1..Len(events[u]) : events'[u][i] = events[u][i]
      BY <3>1, Appended
    <3> QED
      BY <2>1, <3>1, <3>2 DEF Catches, Hears
  <2>3. \A v \in Nat : Hears(t, v)' => Hears(t, v)
    BY <2>1 DEF Hears
  <2> QED
    BY <1>2, <2>1, <2>2, <2>3
<1> QED
  BY <1>1, <1>2

LEMMA EventEffect ==
  ASSUME events \in [Tab -> Seq(Nat)], NEW t \in Tab, events[t] # <<>>,
         events' = [events EXCEPT ![t] = Tail(@)], cache' = cache
  PROVE  /\ events' \in [Tab -> Seq(Nat)]
         /\ Head(events[t]) \in Nat /\ Hears(t, Head(events[t]))
         /\ \A u \in Tab, v \in Nat : Hears(u, v)' => Hears(u, v)
         /\ \A u \in Tab \ {t} : Catches(u) => Catches(u)'
         /\ Catches(t) => Catches(t)' \/ (Head(events[t]) = cache /\ \A v \in Nat : ~Hears(t, v)')
<1>1. events[t] \in Seq(Nat) /\ events'[t] = Tail(events[t])
  OBVIOUS
<1>2. /\ events'[t] \in Seq(Nat) /\ Len(events'[t]) = Len(events[t]) - 1
      /\ Len(events[t]) \in Nat \ {0} /\ Head(events[t]) = events[t][1]
      /\ \A i \in 1..Len(events'[t]) : events'[t][i] = events[t][i + 1]
  BY <1>1, Removed
<1>3. \A u \in Tab \ {t} : events'[u] = events[u]
  OBVIOUS
<1>4. events' \in [Tab -> Seq(Nat)]
  BY <1>2
<1>5. \A v \in Nat : Hears(t, v)' => Hears(t, v)
  BY <1>2 DEF Hears
<1>6. Hears(t, Head(events[t])) /\ Head(events[t]) \in Nat
  <2>1. 1 \in 1..Len(events[t]) /\ events[t][1] \in Nat
    BY <1>1, <1>2
  <2> QED
    BY <1>2, <2>1 DEF Hears
<1>7. Catches(t) => Catches(t)' \/ (Head(events[t]) = cache /\ \A v \in Nat : ~Hears(t, v)')
  <2>1. CASE Len(events[t]) = 1
    BY <1>2, <2>1 DEF Catches, Hears
  <2>2. CASE Len(events[t]) > 1
    <3>1. events'[t][Len(events'[t])] = events[t][Len(events[t])]
      BY <1>2, <2>2
    <3> QED
      BY <1>2, <2>2, <3>1 DEF Catches
  <2> QED
    BY <1>2, <2>1, <2>2
<1> QED
  BY <1>3, <1>4, <1>5, <1>6, <1>7 DEF Hears, Catches
-----------------------------------------------------------------------------
(* AuthSession: what holds in every state, and what holds in a calm one.   *)

ServerShape ==
  /\ calm \in BOOLEAN
  /\ latest \in 0..MaxPair /\ login \in [1..MaxPair -> 0..latest] /\ live \subseteq 1..latest
  /\ near \in Nat /\ dead \in Nat /\ gone \in Nat
  /\ gone <= dead /\ dead <= near /\ near <= latest

TabShape ==
  /\ out \in BOOLEAN
  /\ cache \in 0..latest
  /\ events \in [Tab -> Seq(Nat)]
  /\ \A t \in Tab, v \in Nat : Hears(t, v) => v <= latest
  /\ shared \in [Tab -> 0..latest]
  /\ refresh \in [Tab -> {"idle", "waiting", "asking"}]
  /\ asked \in [Tab -> 0..latest] /\ answer \in [Tab -> {Refused} \cup 0..latest]
  /\ \A t \in Tab : refresh[t] # "asking" => asked[t] = NoPair /\ answer[t] = NoPair

\* Only the newest pair of a login is live.
Newest == \A p \in live, x \in 1..latest : login[x] = login[p] => x <= p

\* The server refuses only what cannot be redeemed any more.
RefusedAreDead ==
  \A t \in Tab : answer[t] = Refused => asked[t] \notin live \/ asked[t] <= gone

\* The lock.
OneAsks == \A t, u \in Tab : refresh[t] = "asking" /\ refresh[u] = "asking" => t = u

EventsAreFresh == \A t \in Tab, v \in Nat : Hears(t, v) => v = NoPair \/ v > near

AskedIsNear == \A t \in Tab : refresh[t] = "asking" => asked[t] \in 1..near

\* An answer is the newest pair of its login, and all the others are near.
Answered ==
  \A t \in Tab : answer[t] \in 1..MaxPair =>
    /\ answer[t] \in live /\ answer[t] > near
    /\ \A x \in 1..latest : login[x] = login[answer[t]] => x <= asked[t] \/ x = answer[t]

RefusedElsewhere ==
  \A t \in Tab : answer[t] = Refused /\ asked[t] > gone => cache # asked[t]

\* Of the cached login, a tab that is not about to hear of the cached pair knows
\* no other pair.
UpToDate ==
  cache # NoPair => \A t \in Tab, v \in 1..latest :
    ~Catches(t) /\ (v = shared[t] \/ Hears(t, v)) /\ login[v] = login[cache] => v = cache

Settled ==
  /\ OneAsks /\ EventsAreFresh /\ AskedIsNear /\ Answered /\ RefusedElsewhere /\ UpToDate

Calm == calm => Settled

SInv ==
  /\ ServerShape /\ TabShape /\ Newest /\ RefusedAreDead
  /\ Calm /\ NeverReplayed /\ CacheIsRedeemable

ServerRests == UNCHANGED <<calm, latest, login, live, near, dead, gone>>

\* A tab goes on as it was, or its refresh is not at the server (any more).
AsksLess(t) ==
  \/ refresh'[t] = refresh[t] /\ asked'[t] = asked[t] /\ answer'[t] = answer[t]
  \/ refresh'[t] # "asking" /\ asked'[t] = NoPair /\ answer'[t] = NoPair

LEMMA EndsEffect ==
  ASSUME ServerShape, TabShape, NEW t \in Tab, RefreshEnds(t)
  PROVE  /\ refresh' \in [Tab -> {"idle", "waiting", "asking"}]
         /\ asked' \in [Tab -> 0..latest] /\ answer' \in [Tab -> {Refused} \cup 0..latest]
         /\ \A u \in Tab : refresh'[u] # "asking" => asked'[u] = NoPair /\ answer'[u] = NoPair
         /\ refresh'[t] = "idle" /\ asked'[t] = NoPair /\ answer'[t] = NoPair
         /\ \A u \in Tab \ {t} : /\ refresh'[u] = refresh[u]
                                /\ asked'[u] = asked[u] /\ answer'[u] = answer[u]
         /\ \A u \in Tab : AsksLess(u)
<1>1. /\ refresh \in [Tab -> {"idle", "waiting", "asking"}]
      /\ asked \in [Tab -> 0..latest] /\ answer \in [Tab -> {Refused} \cup 0..latest]
      /\ \A u \in Tab : refresh[u] # "asking" => asked[u] = NoPair /\ answer[u] = NoPair
      /\ 0 \in 0..latest
  BY DEF ServerShape, TabShape
<1>2. /\ refresh'[t] = "idle" /\ asked'[t] = NoPair /\ answer'[t] = NoPair
      /\ \A u \in Tab \ {t} : /\ refresh'[u] = refresh[u]
                             /\ asked'[u] = asked[u] /\ answer'[u] = answer[u]
  BY <1>1 DEF RefreshEnds
<1>3. /\ refresh' \in [Tab -> {"idle", "waiting", "asking"}]
      /\ asked' \in [Tab -> 0..latest] /\ answer' \in [Tab -> {Refused} \cup 0..latest]
  BY <1>1 DEF RefreshEnds
<1>4. \A u \in Tab : AsksLess(u)
  BY <1>2 DEF AsksLess
<1> QED
  BY <1>1, <1>2, <1>3, <1>4

\* What a step leaves a tab to know of the cached login it knew before.
Heeds(t) ==
  \A v \in 1..latest :
    ~Catches(t)' /\ (v = shared'[t] \/ Hears(t, v)') =>
      v = cache \/ (~Catches(t) /\ (v = shared[t] \/ Hears(t, v)))

\* The cache is left as it is, and nobody asks for more.
LEMMA QuietStep ==
  ASSUME SInv, ServerRests, TabShape', cache' = cache,
         \A t \in Tab : AsksLess(t) /\ Heeds(t),
         \A t \in Tab, v \in Nat : Hears(t, v)' => Hears(t, v),
         CacheIsRedeemable'
  PROVE  SInv'
<1>1. ServerShape /\ TabShape /\ Newest /\ RefusedAreDead /\ Calm /\ NeverReplayed
  BY DEF SInv
<1>2. calm' = calm /\ latest' = latest /\ login' = login /\ live' = live
      /\ near' = near /\ dead' = dead /\ gone' = gone
  BY DEF ServerRests
<1>3. TabShape'
  OBVIOUS
<1>4. Newest'
  BY <1>1, <1>2 DEF Newest
<1>5. RefusedAreDead'
  BY <1>1, <1>2 DEF RefusedAreDead, AsksLess
<1>6. ASSUME calm
      PROVE  (/\ OneAsks /\ EventsAreFresh /\ AskedIsNear /\ Answered /\ RefusedElsewhere)'
  <2>1. OneAsks /\ EventsAreFresh /\ AskedIsNear /\ Answered /\ RefusedElsewhere
    BY <1>1, <1>6 DEF Calm, Settled
  <2>2. OneAsks'
    BY <2>1 DEF OneAsks, AsksLess
  <2>3. EventsAreFresh'
    BY <1>2, <2>1 DEF EventsAreFresh
  <2>4. AskedIsNear'
    BY <1>2, <2>1 DEF AskedIsNear, AsksLess
  <2>5. Answered'
    BY <1>2, <2>1 DEF Answered, AsksLess
  <2>6. RefusedElsewhere'
    BY <1>2, <2>1 DEF RefusedElsewhere, AsksLess
  <2> QED
    BY <2>2, <2>3, <2>4, <2>5, <2>6
<1>7. ASSUME calm PROVE UpToDate'
  <2>1. UpToDate
    BY <1>1, <1>7 DEF Calm, Settled
  <2> QED
    BY <1>2, <2>1 DEF UpToDate, Heeds
<1>8. NeverReplayed'
  BY <1>1, <1>2 DEF NeverReplayed, Asking, AsksLess
<1>9. ServerShape'
  BY <1>1, <1>2 DEF ServerShape
<1> QED
  BY <1>2, <1>3, <1>4, <1>5, <1>6, <1>7, <1>8, <1>9 DEF SInv, Calm, Settled

\* The cache is emptied, and nobody asks for more.
LEMMA ClearedStep ==
  ASSUME SInv, ServerRests, TabShape', cache' = NoPair,
         \A t \in Tab : AsksLess(t),
         \A t \in Tab, v \in Nat : Hears(t, v)' => Hears(t, v) \/ v = NoPair
  PROVE  SInv'
<1>1. ServerShape /\ TabShape /\ Newest /\ RefusedAreDead /\ Calm
  BY DEF SInv
<1>2. calm' = calm /\ latest' = latest /\ login' = login /\ live' = live
      /\ near' = near /\ dead' = dead /\ gone' = gone
  BY DEF ServerRests
<1>3. ServerShape' /\ Newest'
  BY <1>1, <1>2 DEF ServerShape, Newest
<1>4. RefusedAreDead'
  BY <1>1, <1>2 DEF RefusedAreDead, AsksLess
<1>5. ASSUME calm
      PROVE  (/\ OneAsks /\ EventsAreFresh /\ AskedIsNear /\ Answered /\ RefusedElsewhere)'
  <2>1. OneAsks /\ EventsAreFresh /\ AskedIsNear /\ Answered
    BY <1>1, <1>5 DEF Calm, Settled
  <2>2. OneAsks'
    BY <2>1 DEF OneAsks, AsksLess
  <2>3. EventsAreFresh'
    BY <1>2, <2>1 DEF EventsAreFresh
  <2>4. AskedIsNear'
    BY <1>2, <2>1 DEF AskedIsNear, AsksLess
  <2>5. Answered'
    BY <1>2, <2>1 DEF Answered, AsksLess
  <2>6. RefusedElsewhere'
    BY <1>1, <1>2 DEF RefusedElsewhere, ServerShape
  <2> QED
    BY <2>2, <2>3, <2>4, <2>5, <2>6
<1>6. UpToDate' /\ NeverReplayed' /\ CacheIsRedeemable'
  BY <1>1, <1>2 DEF UpToDate, NeverReplayed, CacheIsRedeemable, ServerShape
<1> QED
  BY <1>2, <1>3, <1>4, <1>5, <1>6 DEF SInv, Calm, Settled

-----------------------------------------------------------------------------
(* AuthSession: the actions.                                               *)

LEMMA StartStep == ASSUME SInv, NEW t \in Tab, Start(t), calm' = calm PROVE SInv'
<1> DEFINE p == latest + 1
<1>0. ServerShape /\ TabShape /\ Newest /\ RefusedAreDead /\ Calm /\ NeverReplayed
  BY DEF SInv
<1>1. /\ latest \in Nat /\ p \in 1..MaxPair /\ p \in Nat /\ latest' = p
      /\ live' = live \cup {p} /\ login' = [login EXCEPT ![p] = p]
      /\ shared' = [shared EXCEPT ![t] = p] /\ CacheWrite(t, p) /\ out' = FALSE
      /\ near' = near /\ dead' = dead /\ gone' = gone
      /\ refresh' = refresh /\ asked' = asked /\ answer' = answer /\ p # cache
  BY <1>0, SessionAssumption DEF Start, Share, ages, ServerShape, TabShape
<1>2. /\ cache' = p /\ events' \in [Tab -> Seq(Nat)]
      /\ \A u \in Tab, v \in Nat : Hears(u, v)' => Hears(u, v) \/ (v = p /\ u # t)
      /\ \A u \in Tab \ {t} : Catches(u)'
  BY <1>0, <1>1, WriteEffect DEF TabShape
<1>3. /\ login'[p] = p /\ \A x \in 1..latest : login'[x] = login[x] /\ login[x] # p
      /\ 1..latest' = 1..latest \cup {p} /\ p \notin 1..latest
  <2>1. login \in [1..MaxPair -> 0..latest] /\ 1..latest \subseteq 1..MaxPair
    BY <1>0, SessionAssumption DEF ServerShape
  <2>2. login'[p] = p /\ \A x \in 1..latest : login'[x] = login[x]
    BY <1>1, <2>1
  <2>3. \A x \in 1..latest : login[x] # p
    BY <1>1, <2>1
  <2> QED
    BY <1>1, <2>2, <2>3
<1>4. ServerShape'
  BY <1>0, <1>1 DEF ServerShape
<1>5. TabShape'
  <2>1. 0..latest \subseteq 0..latest' /\ p \in 0..latest' /\ latest <= latest'
    BY <1>1
  <2>2. shared' \in [Tab -> 0..latest'] /\ asked' \in [Tab -> 0..latest']
        /\ answer' \in [Tab -> {Refused} \cup 0..latest']
    BY <1>0, <1>1, <2>1 DEF TabShape
  <2>3. \A u \in Tab, v \in Nat : Hears(u, v)' => v <= latest'
    BY <1>0, <1>1, <1>2 DEF TabShape
  <2> QED
    BY <1>0, <1>1, <1>2, <2>1, <2>2, <2>3 DEF TabShape
<1>6. live \subseteq 1..latest /\ \A u \in Tab : asked[u] \in 0..latest /\ asked[u] # p
  BY <1>0, <1>1 DEF ServerShape, TabShape
<1>7. Newest'
  BY <1>0, <1>1, <1>3, <1>6 DEF Newest
<1>8. RefusedAreDead'
  BY <1>0, <1>1, <1>6 DEF RefusedAreDead
<1>9. ASSUME calm PROVE Settled'
  <2>1. OneAsks /\ EventsAreFresh /\ AskedIsNear /\ Answered
    BY <1>0, <1>9 DEF Calm, Settled
  <2>2. OneAsks' /\ AskedIsNear'
    BY <1>1, <2>1 DEF OneAsks, AskedIsNear
  <2>3. EventsAreFresh'
    BY <1>0, <1>1, <1>2, <2>1 DEF EventsAreFresh, ServerShape
  <2>4. Answered'
    BY <1>1, <1>3, <1>6, <2>1 DEF Answered
  <2>5. RefusedElsewhere'
    BY <1>1, <1>2, <1>6 DEF RefusedElsewhere
  <2>6. UpToDate'
    <3>1. \A v \in 1..latest : login'[v] # login'[p]
      BY <1>3
    <3> QED
      BY <1>1, <1>2, <1>3, <3>1 DEF UpToDate
  <2> QED
    BY <2>2, <2>3, <2>4, <2>5, <2>6 DEF Settled
<1>10. NeverReplayed'
  <2>1. \A u \in Tab : asked[u] > gone => asked[u] \in 1..latest
    BY <1>0, <1>6 DEF ServerShape
  <2> QED
    BY <1>1, <1>2, <1>3, <2>1 DEF NeverReplayed, Asking
<1>11. CacheIsRedeemable'
  BY <1>1, <1>2 DEF CacheIsRedeemable
<1> QED
  BY <1>4, <1>5, <1>7, <1>8, <1>9, <1>10, <1>11 DEF SInv, Calm

LEMMA LogoutStep == ASSUME SInv, NEW t \in Tab, Logout(t), calm' = calm PROVE SInv'
<1>0. ServerShape /\ TabShape
  BY DEF SInv
<1>1. /\ ServerRests /\ shared' = [shared EXCEPT ![t] = NoPair] /\ CacheWrite(t, NoPair)
      /\ out' = TRUE /\ refresh' = refresh /\ asked' = asked /\ answer' = answer
  BY DEF Logout, Share, ages, server, ServerRests
<1>2. /\ cache' = NoPair /\ events' \in [Tab -> Seq(Nat)]
      /\ \A u \in Tab, v \in Nat : Hears(u, v)' => Hears(u, v) \/ v = NoPair
  BY <1>0, <1>1, WriteEffect DEF TabShape
<1>3. latest' = latest /\ latest \in Nat
  BY <1>0, <1>1 DEF ServerShape, ServerRests
<1>4. \A u \in Tab, v \in Nat : Hears(u, v)' => v <= latest'
  BY <1>0, <1>2, <1>3 DEF TabShape
<1>5. TabShape'
  <2>1. 0 \in 0..latest /\ 0..latest' = 0..latest
    BY <1>3
  <2>2. shared' \in [Tab -> 0..latest']
    BY <1>0, <1>1, <2>1 DEF TabShape
  <2> QED
    BY <1>0, <1>1, <1>2, <1>4, <2>1, <2>2 DEF TabShape
<1> QED
  BY <1>1, <1>2, <1>5, ClearedStep DEF AsksLess

LEMMA OnCrossTabStep == ASSUME SInv, NEW t \in Tab, OnCrossTab(t), calm' = calm PROVE SInv'
<1> DEFINE p == Head(events[t])
<1>0. ServerShape /\ TabShape /\ CacheIsRedeemable
  BY DEF SInv
<1>1. /\ ServerRests /\ shared' = [shared EXCEPT ![t] = p] /\ events[t] # <<>>
      /\ events' = [events EXCEPT ![t] = Tail(@)]
      /\ UNCHANGED <<cache, refresh, asked, answer, out>>
  BY DEF OnCrossTab, Share, ages, server, ServerRests
<1>2. /\ events' \in [Tab -> Seq(Nat)] /\ p \in Nat /\ Hears(t, p)
      /\ \A u \in Tab, v \in Nat : Hears(u, v)' => Hears(u, v)
      /\ \A u \in Tab \ {t} : Catches(u) => Catches(u)'
      /\ Catches(t) => Catches(t)' \/ (p = cache /\ \A v \in Nat : ~Hears(t, v)')
  BY <1>0, <1>1, EventEffect DEF TabShape
<1> HIDE DEF p
<1>3. p \in 0..latest /\ shared'[t] = p /\ \A u \in Tab \ {t} : shared'[u] = shared[u]
  BY <1>0, <1>1, <1>2 DEF TabShape, ServerShape
<1>4. TabShape'
  BY <1>0, <1>1, <1>2, <1>3 DEF TabShape, ServerRests
<1>5. \A u \in Tab : Heeds(u)
  <2>1. 1..latest \subseteq Nat
    BY <1>0 DEF ServerShape
  <2>2. Heeds(t)
    BY <1>2, <1>3, <2>1 DEF Heeds
  <2>3. \A u \in Tab \ {t} : Heeds(u)
    BY <1>2, <1>3, <2>1 DEF Heeds
  <2> QED
    BY <2>2, <2>3
<1>6. CacheIsRedeemable'
  BY <1>0, <1>1 DEF CacheIsRedeemable, ServerRests
<1> QED
  BY <1>1, <1>2, <1>4, <1>5, <1>6, QuietStep DEF AsksLess

LEMMA ReloadStep == ASSUME SInv, NEW t \in Tab, Reload(t), calm' = calm PROVE SInv'
<1>0. ServerShape /\ TabShape /\ CacheIsRedeemable
  BY DEF SInv
<1>1. /\ ServerRests /\ shared' = [shared EXCEPT ![t] = cache]
      /\ events' = [events EXCEPT ![t] = <<>>] /\ RefreshEnds(t)
      /\ cache' = cache /\ out' = out /\ (calm => refresh[t] # "asking")
  BY DEF Reload, Share, ages, server, ServerRests
<1>2. /\ events' \in [Tab -> Seq(Nat)] /\ (\A v \in Nat : ~Hears(t, v)')
      /\ \A u \in Tab \ {t} : events'[u] = events[u]
      /\ shared'[t] = cache /\ \A u \in Tab \ {t} : shared'[u] = shared[u]
  BY <1>0, <1>1 DEF TabShape, Hears
<1>3. \A u \in Tab, v \in Nat : Hears(u, v)' => Hears(u, v)
  BY <1>2 DEF Hears
<1>4. latest' = latest /\ shared' \in [Tab -> 0..latest]
  BY <1>0, <1>1 DEF TabShape, ServerRests
<1>5. TabShape'
  BY <1>0, <1>1, <1>2, <1>3, <1>4, EndsEffect DEF TabShape
<1>6. \A u \in Tab : Heeds(u)
  <2>1. 1..latest \subseteq Nat
    BY <1>0 DEF ServerShape
  <2>2. Heeds(t)
    BY <1>2, <2>1 DEF Heeds
  <2>3. \A u \in Tab \ {t} : Heeds(u)
    BY <1>1, <1>2 DEF Heeds, Catches, Hears
  <2> QED
    BY <2>2, <2>3
<1>7. CacheIsRedeemable'
  BY <1>0, <1>1, EndsEffect DEF CacheIsRedeemable, ServerRests
<1> QED
  BY <1>0, <1>1, <1>3, <1>5, <1>6, <1>7, EndsEffect, QuietStep

LEMMA AgeStep == ASSUME SInv, Age, calm' = calm PROVE SInv'
<1>0. /\ ServerShape /\ TabShape /\ Newest /\ RefusedAreDead /\ Calm
      /\ NeverReplayed /\ CacheIsRedeemable
  BY DEF SInv
<1>1. UNCHANGED <<calm, latest, login, live, cache, events, shared, refresh, asked, answer, out>>
  BY DEF Age, server, tabs
<1>2. /\ near' \in Nat /\ dead' \in Nat /\ gone' \in Nat
      /\ gone' <= dead' /\ dead' <= near' /\ near' <= latest /\ near <= near' /\ gone <= gone'
  BY <1>0 DEF Age, ServerShape
<1>3. ServerShape' /\ Newest'
  BY <1>0, <1>1, <1>2 DEF ServerShape, Newest
<1>4. TabShape'
  BY <1>0, <1>1 DEF TabShape, Hears
<1>5. RefusedAreDead'
  <2>1. asked \in [Tab -> 0..latest] /\ latest \in Nat /\ gone \in Nat
    BY <1>0 DEF ServerShape, TabShape
  <2>2. ASSUME NEW t \in Tab, answer[t] = Refused PROVE asked[t] \notin live \/ asked[t] <= gone'
    <3>1. asked[t] \in Nat /\ (asked[t] \notin live \/ asked[t] <= gone)
      BY <1>0, <2>1, <2>2 DEF RefusedAreDead
    <3> QED
      BY <1>2, <2>1, <3>1
  <2> QED
    BY <1>1, <2>2 DEF RefusedAreDead
<1>6. ASSUME calm PROVE Settled'
  <2>1. OneAsks /\ AskedIsNear /\ UpToDate
    BY <1>0, <1>6 DEF Calm, Settled
  <2>2. \A t \in Tab : events[t] = <<>> /\ answer[t] = NoPair
    BY <1>6 DEF Age
  <2>3. OneAsks' /\ UpToDate'
    BY <1>1, <2>1 DEF OneAsks, UpToDate, Catches, Hears
  <2>4. AskedIsNear'
    BY <1>0, <1>1, <1>2, <2>1 DEF AskedIsNear, ServerShape
  <2>5. EventsAreFresh'
    <3>1. \A t \in Tab : Len(events'[t]) = 0
      BY <1>1, <2>2
    <3> QED
      BY <3>1 DEF EventsAreFresh, Hears
  <2>6. Answered' /\ RefusedElsewhere'
    BY <1>1, <2>2 DEF Answered, RefusedElsewhere
  <2> QED
    BY <2>3, <2>4, <2>5, <2>6 DEF Settled
<1>7. NeverReplayed'
  <2>1. \A t \in Tab : asked[t] > gone' => asked[t] > gone
    BY <1>0, <1>2 DEF ServerShape, TabShape
  <2> QED
    BY <1>0, <1>1, <2>1 DEF NeverReplayed, Asking
<1>8. CacheIsRedeemable'
  <2>1. cache > gone' => cache > gone
    BY <1>0, <1>2 DEF ServerShape, TabShape
  <2> QED
    BY <1>0, <1>1, <2>1 DEF CacheIsRedeemable
<1> QED
  BY <1>1, <1>3, <1>4, <1>5, <1>6, <1>7, <1>8 DEF SInv, Calm

\* A tab's refresh moves, but not to the server and not from it.
LEMMA RefreshTypes ==
  ASSUME ServerShape, TabShape, NEW t \in Tab, refresh[t] # "asking",
         refresh' = [refresh EXCEPT ![t] = "waiting"], asked' = asked, answer' = answer
  PROVE  /\ refresh' \in [Tab -> {"idle", "waiting", "asking"}]
         /\ \A u \in Tab : AsksLess(u)
         /\ \A u \in Tab : refresh'[u] = "asking" <=> refresh[u] = "asking"
  BY DEF TabShape, AsksLess

LEMMA EnsureFreshStep == ASSUME SInv, NEW t \in Tab, EnsureFresh(t), calm' = calm PROVE SInv'
<1>0. ServerShape /\ TabShape /\ CacheIsRedeemable
  BY DEF SInv
<1>1. /\ ServerRests /\ UNCHANGED <<cache, events, shared, asked, answer, out>>
      /\ refresh[t] # "asking" /\ refresh' = [refresh EXCEPT ![t] = "waiting"]
  BY DEF EnsureFresh, ages, server, ServerRests
<1>2. /\ refresh' \in [Tab -> {"idle", "waiting", "asking"}]
      /\ \A u \in Tab : AsksLess(u)
      /\ \A u \in Tab : refresh'[u] = "asking" <=> refresh[u] = "asking"
  BY <1>0, <1>1, RefreshTypes
<1>3. TabShape'
  BY <1>0, <1>1, <1>2 DEF TabShape, Hears, ServerRests
<1>4. \A u \in Tab : Heeds(u)
  BY <1>1 DEF Heeds, Catches, Hears
<1>5. CacheIsRedeemable'
  BY <1>0, <1>1, <1>2 DEF CacheIsRedeemable, ServerRests
<1>6. \A u \in Tab, v \in Nat : Hears(u, v)' => Hears(u, v)
  BY <1>1 DEF Hears
<1> QED
  BY <1>1, <1>2, <1>3, <1>4, <1>5, <1>6, QuietStep

\* A refresh ends, its tab keeps its pair, takes the cached one or has none, and
\* nothing is written.
LEMMA EndStep ==
  ASSUME SInv, ServerRests, NEW t \in Tab, RefreshEnds(t), NEW p \in {shared[t], cache, NoPair},
         shared' = [shared EXCEPT ![t] = p], UNCHANGED <<cache, events, out>>,
         CacheIsRedeemable'
  PROVE  SInv'
<1>0. ServerShape /\ TabShape
  BY DEF SInv
<1>1. latest' = latest /\ p \in 0..latest
  BY <1>0 DEF ServerRests, TabShape, ServerShape
<1>2. /\ shared' \in [Tab -> 0..latest] /\ shared'[t] = p
      /\ \A u \in Tab \ {t} : shared'[u] = shared[u]
  BY <1>0, <1>1 DEF TabShape
<1>3. TabShape'
  BY <1>0, <1>1, <1>2, EndsEffect DEF TabShape, Hears
<1>4. \A u \in Tab, v \in Nat : Hears(u, v)' => Hears(u, v)
  BY DEF Hears
<1>5. \A u \in Tab : Heeds(u)
  <2>1. Heeds(t)
    <3>1. \A v \in 1..latest : v # NoPair
      BY <1>0 DEF ServerShape
    <3> QED
      BY <1>2, <3>1 DEF Heeds, Catches, Hears
  <2>2. \A u \in Tab \ {t} : Heeds(u)
    BY <1>2 DEF Heeds, Catches, Hears
  <2> QED
    BY <2>1, <2>2
<1> QED
  BY <1>0, <1>3, <1>4, <1>5, EndsEffect, QuietStep

\* A refresh that ends at its tab was not about to redeem the cached pair.
LEMMA WaitingEnds ==
  ASSUME SInv, ServerRests, NEW t \in Tab, refresh[t] = "waiting", RefreshEnds(t), cache' = cache
  PROVE  CacheIsRedeemable'
<1>1. ServerShape /\ TabShape /\ CacheIsRedeemable
  BY DEF SInv
<1>2. \A u \in Tab : refresh[u] = "asking" => refresh'[u] = "asking" /\ asked'[u] = asked[u]
  BY <1>1, EndsEffect
<1> QED
  BY <1>1, <1>2 DEF CacheIsRedeemable, ServerRests

LEMMA AcquireStep ==
  ASSUME SInv, NEW t \in Tab, AcquireTimesOut(t) \/ Adopt(t) \/ FindFresh(t), calm' = calm
  PROVE  SInv'
<1>0. shared \in [Tab -> 0..latest]
  BY DEF SInv, TabShape
<1>1. /\ ServerRests /\ RefreshEnds(t) /\ UNCHANGED <<cache, events, out>>
      /\ refresh[t] = "waiting"
  BY DEF AcquireTimesOut, Adopt, FindFresh, Enters, ages, server, ServerRests
<1>2. shared' = [shared EXCEPT ![t] = shared[t]] \/ shared' = [shared EXCEPT ![t] = cache]
  BY <1>0 DEF AcquireTimesOut, Adopt, FindFresh, Share
<1> QED
  BY <1>1, <1>2, WaitingEnds, EndStep

\* What toExpired does: the tab has no pair, and the cache is left or emptied.
LEMMA ExpireEffect ==
  ASSUME TabShape, NEW t \in Tab, NEW p, Expire(t, p)
  PROVE  \/ /\ cache' = cache /\ events' = events
            /\ shared' = [shared EXCEPT ![t] = NoPair]
         \/ /\ cache = p /\ CacheWrite(t, NoPair)
            /\ shared' = [shared EXCEPT ![t] = NoPair]
  BY DEF Expire, Share, TabShape

LEMMA ExpireStep ==
  ASSUME SInv, ServerRests, NEW t \in Tab, NEW p, Expire(t, p), RefreshEnds(t), out' = out,
         cache' = cache => CacheIsRedeemable'
  PROVE  SInv'
<1>0. ServerShape /\ TabShape
  BY DEF SInv
<1>1. CASE cache' = cache /\ events' = events /\ shared' = [shared EXCEPT ![t] = NoPair]
  BY <1>1, EndStep
<1>2. CASE CacheWrite(t, NoPair) /\ shared' = [shared EXCEPT ![t] = NoPair]
  <2>1. /\ cache' = NoPair /\ events' \in [Tab -> Seq(Nat)]
        /\ \A u \in Tab, v \in Nat : Hears(u, v)' => Hears(u, v) \/ v = NoPair
    BY <1>0, <1>2, WriteEffect DEF TabShape
  <2>2. latest' = latest /\ latest \in Nat
    BY <1>0 DEF ServerShape, ServerRests
  <2>3. \A u \in Tab, v \in Nat : Hears(u, v)' => v <= latest'
    BY <1>0, <2>1, <2>2 DEF TabShape
  <2>4. shared' \in [Tab -> 0..latest] /\ cache' \in 0..latest
    BY <1>0, <1>2, <2>1, <2>2 DEF TabShape
  <2>5. TabShape'
    BY <1>0, <2>1, <2>2, <2>3, <2>4, EndsEffect DEF TabShape
  <2> QED
    BY <1>0, <2>1, <2>5, EndsEffect, ClearedStep
<1> QED
  BY <1>0, <1>1, <1>2, ExpireEffect

LEMMA CannotRefreshStep ==
  ASSUME SInv, NEW t \in Tab, CannotRefresh(t), calm' = calm PROVE SInv'
<1>1. /\ ServerRests /\ RefreshEnds(t) /\ Expire(t, shared[t]) /\ out' = out
      /\ refresh[t] = "waiting"
  BY DEF CannotRefresh, Enters, ages, server, ServerRests
<1> QED
  BY <1>1, WaitingEnds, ExpireStep

\* Only the tab at the server can be about to redeem the cached pair; an answer of
\* "no" does not concern that pair, and without an answer the pair still works.
LEMMA AskingEnds ==
  ASSUME SInv, ServerRests, NEW t \in Tab, refresh[t] = "asking", RefreshEnds(t),
         answer[t] = Refused \/ (calm => answer[t] = NoPair), cache' = cache
  PROVE  CacheIsRedeemable'
<1>1. ServerShape /\ TabShape /\ CacheIsRedeemable /\ NeverReplayed /\ Calm
  BY DEF SInv
<1>2. SUFFICES ASSUME calm, cache > gone PROVE cache \in live
  BY <1>1 DEF CacheIsRedeemable, ServerRests
<1>3. CASE \E u \in Tab : refresh[u] = "asking" /\ asked[u] = cache
  <2>1. asked[t] = cache /\ cache # NoPair
    BY <1>1, <1>2, <1>3 DEF Calm, Settled, OneAsks, ServerShape
  <2>2. answer[t] # Refused
    BY <1>1, <1>2, <2>1 DEF Calm, Settled, RefusedElsewhere
  <2>3. Asking(t)
    BY <1>2, <2>2 DEF Asking
  <2> QED
    BY <1>1, <1>2, <2>1, <2>3 DEF NeverReplayed
<1> QED
  BY <1>1, <1>2, <1>3 DEF CacheIsRedeemable

LEMMA IsRefusedStep ==
  ASSUME SInv, NEW t \in Tab, IsRefused(t), calm' = calm PROVE SInv'
<1>1. /\ ServerRests /\ RefreshEnds(t) /\ Expire(t, asked[t]) /\ out' = out
      /\ refresh[t] = "asking" /\ answer[t] = Refused
  BY DEF IsRefused, ages, server, ServerRests
<1> QED
  BY <1>1, AskingEnds, ExpireStep

LEMMA RefreshFailsStep ==
  ASSUME SInv, NEW t \in Tab, RefreshFails(t), calm' = calm PROVE SInv'
<1>0. shared \in [Tab -> 0..latest]
  BY DEF SInv, TabShape
<1>1. /\ ServerRests /\ RefreshEnds(t) /\ UNCHANGED <<cache, events, out>>
      /\ refresh[t] = "asking" /\ (calm => answer[t] = NoPair)
      /\ shared' = [shared EXCEPT ![t] = shared[t]]
  BY <1>0 DEF RefreshFails, Asking, ages, server, ServerRests
<1> QED
  BY <1>1, AskingEnds, EndStep

LEMMA AskStep == ASSUME SInv, NEW t \in Tab, Ask(t), calm' = calm PROVE SInv'
<1> DEFINE p == shared[t]
<1>0. /\ ServerShape /\ TabShape /\ Newest /\ RefusedAreDead /\ Calm
      /\ NeverReplayed /\ CacheIsRedeemable
  BY DEF SInv
<1>1. /\ UNCHANGED <<calm, latest, login, live, near, dead, gone>>
      /\ UNCHANGED <<cache, events, shared, answer, out>>
      /\ refresh[t] = "waiting" /\ LockIsFree(t) /\ p <= near /\ p > gone
      /\ ~OthersPairIsCached(t)
      /\ refresh' = [refresh EXCEPT ![t] = "asking"] /\ asked' = [asked EXCEPT ![t] = p]
  BY DEF Ask, Enters, ages, server
<1>2. /\ refresh'[t] = "asking" /\ asked'[t] = p
      /\ \A u \in Tab \ {t} : refresh'[u] = refresh[u] /\ asked'[u] = asked[u]
      /\ answer[t] = NoPair
  BY <1>0, <1>1 DEF TabShape
<1>3. p \in 1..near /\ p \in 1..latest
  BY <1>0, <1>1 DEF ServerShape, TabShape
<1>4. ServerShape' /\ Newest'
  BY <1>0, <1>1 DEF ServerShape, Newest
<1>5. TabShape'
  <2>1. refresh' \in [Tab -> {"idle", "waiting", "asking"}] /\ asked' \in [Tab -> 0..latest]
    BY <1>0, <1>1, <1>3 DEF TabShape
  <2> QED
    BY <1>0, <1>1, <1>2, <2>1 DEF TabShape, Hears
<1>6. RefusedAreDead'
  BY <1>0, <1>1, <1>2 DEF RefusedAreDead
<1>7. calm => \A u \in Tab : refresh[u] # "asking"
  BY <1>1 DEF LockIsFree
<1>8. ASSUME calm PROVE Settled'
  <2>1. EventsAreFresh /\ Answered /\ RefusedElsewhere /\ UpToDate
    BY <1>0, <1>8 DEF Calm, Settled
  <2>2. OneAsks'
    BY <1>2, <1>7, <1>8 DEF OneAsks
  <2>3. EventsAreFresh' /\ UpToDate'
    BY <1>1, <2>1 DEF EventsAreFresh, UpToDate, Catches, Hears
  <2>4. AskedIsNear'
    BY <1>1, <1>2, <1>3, <1>7, <1>8 DEF AskedIsNear
  <2>5. \A u \in Tab : answer[u] = NoPair
    BY <1>0, <1>7, <1>8 DEF TabShape
  <2>6. Answered' /\ RefusedElsewhere'
    BY <1>1, <2>5 DEF Answered, RefusedElsewhere
  <2> QED
    BY <2>2, <2>3, <2>4, <2>6 DEF Settled
<1>9. ASSUME calm, cache # NoPair, login[p] = login[cache] PROVE p \in live
  <2>1. cache > gone /\ p = cache
    <3>1. CASE Catches(t)
      <4>1. Hears(t, cache) /\ cache \in Nat
        BY <1>0, <3>1 DEF Catches, Hears, TabShape, ServerShape
      <4>2. cache > near
        BY <1>0, <1>9, <4>1 DEF Calm, Settled, EventsAreFresh
      <4> QED
        BY <1>0, <1>1, <1>3, <4>1, <4>2 DEF OthersPairIsCached, ServerShape
    <3>2. CASE ~Catches(t)
      BY <1>0, <1>1, <1>3, <1>9, <3>2 DEF Calm, Settled, UpToDate
    <3> QED
      BY <3>1, <3>2
  <2> QED
    BY <1>0, <1>7, <1>9, <2>1 DEF CacheIsRedeemable
<1>10. NeverReplayed'
  BY <1>1, <1>2, <1>7, <1>9 DEF NeverReplayed, Asking
<1>11. CacheIsRedeemable'
  BY <1>0, <1>1, <1>7 DEF CacheIsRedeemable
<1> QED
  BY <1>1, <1>4, <1>5, <1>6, <1>8, <1>10, <1>11 DEF SInv, Calm

\* Before the server answers: who asks is alone, and a spent token is no pair of
\* the cached login.
LEMMA AskedAlone ==
  ASSUME SInv, calm, NEW t \in Tab, Asking(t)
  PROVE  /\ asked[t] \in 1..latest /\ answer[t] = NoPair
         /\ \A u \in Tab \ {t} : refresh[u] # "asking" /\ answer[u] = NoPair
         /\ asked[t] > gone /\ cache # NoPair /\ login[asked[t]] = login[cache]
              => asked[t] \in live
<1>1. ServerShape /\ TabShape /\ Calm /\ NeverReplayed
  BY DEF SInv
<1>2. OneAsks /\ AskedIsNear
  BY <1>1 DEF Calm, Settled
<1>3. refresh[t] = "asking" /\ asked[t] \in 1..near
  BY <1>2 DEF Asking, AskedIsNear
<1>4. asked[t] \in 1..latest
  BY <1>1, <1>3 DEF ServerShape
<1>5. \A u \in Tab \ {t} : refresh[u] # "asking" /\ answer[u] = NoPair
  BY <1>1, <1>2, <1>3 DEF OneAsks, TabShape
<1> QED
  BY <1>1, <1>4, <1>5 DEF NeverReplayed, Asking

LEMMA RotateStep ==
  ASSUME SInv, NEW t \in Tab, Redeem(t), calm' = calm,
         asked[t] \in live, asked[t] > gone
  PROVE  SInv'
<1> DEFINE p == asked[t]
           q == latest + 1
<1>0. ServerShape /\ TabShape /\ Newest /\ RefusedAreDead /\ Calm /\ CacheIsRedeemable
  BY DEF SInv
<1>1. /\ UNCHANGED <<calm, near, dead, gone, cache, events, shared, refresh, asked, out>>
      /\ Asking(t) /\ latest \in Nat /\ q \in 1..MaxPair /\ latest' = q
      /\ live' = (live \ {p}) \cup {q} /\ login' = [login EXCEPT ![q] = login[p]]
      /\ answer' = [answer EXCEPT ![t] = q]
  BY <1>0, SessionAssumption DEF Redeem, ages, ServerShape
<1>2. /\ login'[q] = login[p] /\ \A x \in 1..latest : login'[x] = login[x]
      /\ 1..latest' = 1..latest \cup {q} /\ q \notin 0..latest /\ live \subseteq 1..latest
      /\ login[p] \in 0..latest /\ p \in 1..latest
  <2>1. /\ login \in [1..MaxPair -> 0..latest]
        /\ 1..latest \subseteq 1..MaxPair /\ live \subseteq 1..latest
    BY <1>0, SessionAssumption DEF ServerShape
  <2>2. login'[q] = login[p] /\ \A x \in 1..latest : login'[x] = login[x]
    BY <1>1, <2>1
  <2>3. 1..latest' = 1..latest \cup {q} /\ q \notin 0..latest
    BY <1>1
  <2>4. p \in 1..latest /\ login[p] \in 0..latest
    BY <2>1
  <2> QED
    BY <2>1, <2>2, <2>3, <2>4
<1>3. answer'[t] = q /\ \A u \in Tab \ {t} : answer'[u] = answer[u]
  BY <1>0, <1>1 DEF TabShape
<1>4. ServerShape'
  <2>1. 0..latest \subseteq 0..latest'
    BY <1>1
  <2>2. login' \in [1..MaxPair -> 0..latest']
    BY <1>0, <1>1, <1>2, <2>1 DEF ServerShape
  <2>3. live' \subseteq 1..latest'
    BY <1>1, <1>2
  <2>4. latest' \in 0..MaxPair /\ near' <= latest'
    BY <1>0, <1>1 DEF ServerShape
  <2> QED
    BY <1>0, <1>1, <2>2, <2>3, <2>4 DEF ServerShape
<1>5. TabShape'
  <2>1. 0..latest \subseteq 0..latest' /\ latest <= latest' /\ q \in 0..latest'
    BY <1>1
  <2>2. /\ shared' \in [Tab -> 0..latest'] /\ asked' \in [Tab -> 0..latest']
        /\ answer' \in [Tab -> {Refused} \cup 0..latest']
    BY <1>0, <1>1, <2>1 DEF TabShape
  <2>3. ASSUME NEW u \in Tab, NEW v \in Nat, Hears(u, v)' PROVE v <= latest'
    <3>1. Hears(u, v)
      BY <1>1, <2>3 DEF Hears
    <3>2. v <= latest
      BY <1>0, <3>1 DEF TabShape
    <3> QED
      BY <1>1, <3>2
  <2>4. \A u \in Tab : refresh'[u] # "asking" => asked'[u] = NoPair /\ answer'[u] = NoPair
    BY <1>0, <1>1, <1>3 DEF TabShape, Asking
  <2> QED
    BY <1>0, <1>1, <2>1, <2>2, <2>3, <2>4 DEF TabShape
<1>6. Newest'
  <2>1. ASSUME NEW a \in live, a # p, NEW x \in 1..latest', login'[x] = login'[a] PROVE x <= a
    <3>1. CASE x = q
      <4>1. login[a] = login[p] /\ a \in 1..latest
        BY <1>2, <2>1, <3>1
      <4>2. a <= p /\ p <= a
        BY <1>0, <1>2, <4>1 DEF Newest
      <4> QED
        BY <1>2, <2>1, <4>1, <4>2
    <3>2. CASE x \in 1..latest
      BY <1>0, <1>2, <2>1, <3>2 DEF Newest
    <3> QED
      BY <1>2, <3>1, <3>2
  <2>2. \A x \in 1..latest' : x <= q
    BY <1>1
  <2> QED
    BY <1>1, <2>1, <2>2 DEF Newest
<1>7. RefusedAreDead'
  <2>1. \A u \in Tab : asked[u] # q
    BY <1>0, <1>2 DEF TabShape
  <2> QED
    BY <1>0, <1>1, <1>3, <2>1 DEF RefusedAreDead
<1>8. calm => \A u \in Tab \ {t} : refresh[u] # "asking" /\ answer[u] = NoPair
  BY <1>1, AskedAlone
<1>9. ASSUME calm PROVE Settled'
  <2>1. OneAsks /\ EventsAreFresh /\ AskedIsNear /\ UpToDate
    BY <1>0, <1>9 DEF Calm, Settled
  <2>2. OneAsks' /\ EventsAreFresh' /\ AskedIsNear'
    BY <1>1, <2>1 DEF OneAsks, EventsAreFresh, AskedIsNear, Hears
  <2>3. Answered'
    <3>1. q > near
      BY <1>0 DEF ServerShape
    <3>2. \A x \in 1..latest' : login'[x] = login'[q] => x <= p \/ x = q
      BY <1>0, <1>2 DEF Newest
    <3>3. \A u \in Tab : answer'[u] \in 1..MaxPair => u = t
      BY <1>3, <1>8, <1>9
    <3> QED
      BY <1>1, <1>3, <3>1, <3>2, <3>3 DEF Answered
  <2>4. RefusedElsewhere'
    BY <1>1, <1>3, <1>8, <1>9 DEF RefusedElsewhere
  <2>5. UpToDate'
    <3>1. ASSUME cache # NoPair, NEW u \in Tab, NEW v \in 1..latest', ~Catches(u),
                 v = shared[u] \/ Hears(u, v), login'[v] = login'[cache]
          PROVE  v = cache
      <4>1. v \in 1..latest /\ cache \in 1..latest
        BY <1>0, <1>1, <3>1 DEF TabShape, ServerShape
      <4> QED
        BY <1>2, <2>1, <3>1, <4>1 DEF UpToDate
    <3> QED
      BY <1>1, <3>1 DEF UpToDate, Catches, Hears
  <2> QED
    BY <2>2, <2>3, <2>4, <2>5 DEF Settled
<1>10. NeverReplayed'
  BY <1>1, <1>3, <1>8 DEF NeverReplayed, Asking
<1>11. CacheIsRedeemable'
  BY <1>0, <1>1 DEF CacheIsRedeemable, Asking
<1> QED
  BY <1>1, <1>4, <1>5, <1>6, <1>7, <1>9, <1>10, <1>11 DEF SInv, Calm

LEMMA RefuseStep ==
  ASSUME SInv, NEW t \in Tab, Redeem(t), calm' = calm,
         ~(asked[t] \in live /\ asked[t] > gone)
  PROVE  SInv'
<1> DEFINE p == asked[t]
<1>0. ServerShape /\ TabShape /\ Newest /\ RefusedAreDead /\ Calm /\ CacheIsRedeemable
  BY DEF SInv
<1>1. /\ UNCHANGED <<calm, latest, login, near, dead, gone>>
      /\ UNCHANGED <<cache, events, shared, refresh, asked, out>>
      /\ Asking(t) /\ live' = IF p > gone THEN {r \in live : login[r] # login[p]} ELSE live
      /\ answer' = [answer EXCEPT ![t] = Refused]
  BY DEF Redeem, ages
<1>2. answer'[t] = Refused /\ \A u \in Tab \ {t} : answer'[u] = answer[u]
  BY <1>0, <1>1 DEF TabShape
<1>3. live' \subseteq live
  BY <1>1
<1>4. ServerShape' /\ Newest'
  BY <1>0, <1>1, <1>3 DEF ServerShape, Newest
<1>5. TabShape'
  <2>1. answer' \in [Tab -> {Refused} \cup 0..latest]
    BY <1>0, <1>1 DEF TabShape
  <2>2. \A u \in Tab : refresh'[u] # "asking" => asked'[u] = NoPair /\ answer'[u] = NoPair
    BY <1>0, <1>1, <1>2 DEF TabShape, Asking
  <2> QED
    BY <1>0, <1>1, <2>1, <2>2 DEF TabShape, Hears
<1>6. RefusedAreDead'
  <2>1. p \notin live \/ p <= gone
    BY <1>0 DEF ServerShape, TabShape
  <2> QED
    BY <1>0, <1>1, <1>2, <1>3, <2>1 DEF RefusedAreDead
<1>7. calm => /\ p \in 1..latest
              /\ \A u \in Tab \ {t} : refresh[u] # "asking" /\ answer[u] = NoPair
              /\ p > gone /\ cache # NoPair => login[p] # login[cache]
  BY <1>1, AskedAlone
<1>8. ASSUME calm PROVE Settled'
  <2>1. OneAsks /\ EventsAreFresh /\ AskedIsNear /\ UpToDate
    BY <1>0, <1>8 DEF Calm, Settled
  <2>2. OneAsks' /\ EventsAreFresh' /\ AskedIsNear'
    BY <1>1, <2>1 DEF OneAsks, EventsAreFresh, AskedIsNear, Hears
  <2>3. Answered'
    BY <1>2, <1>7, <1>8 DEF Answered
  <2>4. RefusedElsewhere'
    BY <1>1, <1>2, <1>7, <1>8 DEF RefusedElsewhere
  <2>5. UpToDate'
    BY <1>1, <2>1 DEF UpToDate, Catches, Hears
  <2> QED
    BY <2>2, <2>3, <2>4, <2>5 DEF Settled
<1>9. NeverReplayed'
  BY <1>1, <1>2, <1>7 DEF NeverReplayed, Asking
<1>10. CacheIsRedeemable'
  <2>1. calm /\ cache > gone /\ cache \in live => cache \in live'
    BY <1>0, <1>1, <1>7 DEF ServerShape
  <2> QED
    BY <1>0, <1>1, <2>1 DEF CacheIsRedeemable
<1> QED
  BY <1>1, <1>4, <1>5, <1>6, <1>8, <1>9, <1>10 DEF SInv, Calm

LEMMA CommitStep == ASSUME SInv, NEW t \in Tab, Commit(t), calm' = calm PROVE SInv'
<1> DEFINE q == answer[t]
<1>0. ServerShape /\ TabShape /\ Newest /\ RefusedAreDead /\ Calm
  BY DEF SInv
<1>1. /\ ServerRests /\ out' = out /\ refresh[t] = "asking" /\ q \in 1..latest /\ q \in Nat
      /\ q \in 1..MaxPair /\ shared' = [shared EXCEPT ![t] = q]
      /\ CacheWrite(t, q) /\ RefreshEnds(t)
  BY <1>0 DEF Commit, Share, ages, server, ServerRests, TabShape, ServerShape
<1> HIDE DEF q
<1>2. /\ cache' = q /\ events' \in [Tab -> Seq(Nat)]
      /\ \A u \in Tab, v \in Nat : Hears(u, v)' => Hears(u, v) \/ (v = q /\ u # t)
      /\ q # cache => \A u \in Tab \ {t} : Catches(u)'
      /\ q = cache => \A u \in Tab : Catches(u) => Catches(u)'
  BY <1>0, <1>1, WriteEffect DEF TabShape
<1>3. /\ latest' = latest /\ login' = login /\ live' = live /\ latest \in Nat
      /\ near' = near /\ dead' = dead /\ gone' = gone /\ calm' = calm
  BY <1>0, <1>1 DEF ServerRests, ServerShape
<1>4. /\ shared'[t] = q /\ (\A u \in Tab \ {t} : shared'[u] = shared[u])
      /\ shared' \in [Tab -> 0..latest]
  BY <1>0, <1>1, <1>3 DEF TabShape
<1>5. ServerShape' /\ Newest'
  BY <1>0, <1>3 DEF ServerShape, Newest
<1>6. TabShape'
  <2>1. \A u \in Tab, v \in Nat : Hears(u, v)' => v <= latest'
    BY <1>0, <1>1, <1>2, <1>3 DEF TabShape
  <2> QED
    BY <1>0, <1>1, <1>2, <1>3, <1>4, <2>1, EndsEffect DEF TabShape
<1>7. \A u \in Tab : AsksLess(u)
  BY <1>0, <1>1, EndsEffect
<1>8. RefusedAreDead'
  BY <1>0, <1>3, <1>7 DEF RefusedAreDead, AsksLess
<1>9. ASSUME calm
      PROVE  /\ \A u \in Tab : refresh'[u] # "asking"
             /\ q \in live /\ q > near /\ asked[t] \in 1..near
             /\ \A x \in 1..latest : login[x] = login[q] => x <= asked[t] \/ x = q
  <2>1. OneAsks /\ AskedIsNear /\ Answered
    BY <1>0, <1>9 DEF Calm, Settled
  <2>2. \A u \in Tab : refresh'[u] # "asking"
    BY <1>0, <1>1, <2>1, EndsEffect DEF OneAsks
  <2> QED
    BY <1>1, <2>1, <2>2 DEF AskedIsNear, Answered, q
<1>10. ASSUME calm PROVE Settled'
  <2>1. EventsAreFresh /\ UpToDate
    BY <1>0, <1>10 DEF Calm, Settled
  <2>2. \A u \in Tab : answer'[u] = NoPair
    BY <1>6, <1>9, <1>10 DEF TabShape
  <2>3. OneAsks' /\ AskedIsNear' /\ Answered' /\ RefusedElsewhere'
    BY <1>9, <1>10, <2>2 DEF OneAsks, AskedIsNear, Answered, RefusedElsewhere
  <2>4. EventsAreFresh'
    BY <1>2, <1>3, <1>9, <1>10, <2>1 DEF EventsAreFresh
  <2>5. ASSUME NEW v \in 1..latest, v = q \/ Hears(t, v), login[v] = login[q] PROVE v = q
    <3>1. v = q \/ v > near
      BY <2>1, <2>5 DEF EventsAreFresh
    <3> QED
      BY <1>0, <1>9, <1>10, <2>5, <3>1 DEF ServerShape
  <2>6. ASSUME q = cache, NEW u \in Tab \ {t}, NEW v \in 1..latest, ~Catches(u)',
               v = shared'[u] \/ Hears(u, v)', login[v] = login[q]
        PROVE  v = q
    BY <1>1, <1>2, <1>4, <2>1, <2>6 DEF UpToDate
  <2>7. UpToDate'
    <3>1. \A v \in 1..latest : Hears(t, v)' => Hears(t, v)
      BY <1>2
    <3> QED
      BY <1>2, <1>3, <1>4, <2>5, <2>6, <3>1 DEF UpToDate
  <2> QED
    BY <2>3, <2>4, <2>7 DEF Settled
<1>11. NeverReplayed' /\ CacheIsRedeemable'
  BY <1>2, <1>3, <1>9 DEF NeverReplayed, CacheIsRedeemable, Asking
<1> QED
  BY <1>3, <1>5, <1>6, <1>8, <1>10, <1>11 DEF SInv, Calm

LEMMA SStep == ASSUME SInv, [SessionNext]_sessionVars PROVE SInv'
<1>1. CASE UNCHANGED sessionVars
  <2>1. UNCHANGED <<calm, near, dead, gone, latest, login, live, cache, events,
                    shared, refresh, asked, answer, out>>
    BY <1>1 DEF sessionVars, ages, server, tabs
  <2>2. /\ ServerShape' /\ TabShape' /\ Newest' /\ RefusedAreDead'
        /\ NeverReplayed' /\ CacheIsRedeemable'
    BY <2>1 DEF SInv, ServerShape, TabShape, Newest, RefusedAreDead, NeverReplayed,
       CacheIsRedeemable, Asking, Hears
  <2>3. Calm'
    BY <2>1 DEF SInv, Calm, Settled, OneAsks, EventsAreFresh, AskedIsNear, Answered,
       RefusedElsewhere, UpToDate, Catches, Hears
  <2> QED
    BY <2>2, <2>3 DEF SInv
<1>2. CASE SessionNext
  <2>1. calm' = calm
    BY <1>2 DEF SessionNext
  <2>2. ASSUME NEW t \in Tab, Redeem(t) PROVE SInv'
    BY <2>1, <2>2, RotateStep, RefuseStep
  <2> QED
    BY <1>2, <2>1, <2>2, AgeStep, StartStep, LogoutStep, OnCrossTabStep, ReloadStep,
       EnsureFreshStep, AcquireStep, CannotRefreshStep, AskStep, CommitStep,
       IsRefusedStep, RefreshFailsStep
       DEF SessionNext
<1> QED
  BY <1>1, <1>2

LEMMA SInvHolds == SessionSpec => []SInv
<1>1. SessionInit => SInv
  <2>1. ASSUME SessionInit PROVE ServerShape /\ TabShape
    <3>1. 0 \in 0..MaxPair /\ 0 \in 0..0 /\ <<>> \in Seq(Nat) /\ Len(<<>>) = 0
      BY SessionAssumption
    <3>2. ServerShape
      BY <2>1, <3>1 DEF SessionInit, ServerShape
    <3>3. \A t \in Tab : events[t] = <<>>
      BY <2>1 DEF SessionInit
    <3>4. \A t \in Tab, v \in Nat : ~Hears(t, v)
      BY <3>1, <3>3 DEF Hears
    <3> QED
      BY <2>1, <3>1, <3>2, <3>4 DEF SessionInit, TabShape
  <2>2. SessionInit => Newest /\ RefusedAreDead /\ Calm /\ NeverReplayed /\ CacheIsRedeemable
    BY SessionAssumption DEF SessionInit, Newest, RefusedAreDead, NeverReplayed,
       CacheIsRedeemable, Asking, Calm, Settled, OneAsks, EventsAreFresh, AskedIsNear, Answered,
       RefusedElsewhere, UpToDate, Hears
  <2> QED
    BY <2>1, <2>2 DEF SInv
<1> QED
  BY <1>1, SStep, PTL DEF SessionSpec

\* What the server, the cache and the tabs keep has its type in every reachable state.
THEOREM SessionTypeOKTheorem == SessionSpec => []SessionTypeOK
<1>1. SInv => SessionTypeOK
  <2> SUFFICES ASSUME SInv PROVE SessionTypeOK
    OBVIOUS
  <2>1. ServerShape /\ TabShape
    BY DEF SInv
  <2>2. ASSUME NEW t \in Tab, NEW i \in DOMAIN events[t] PROVE events[t][i] \in 0..latest
    <3>1. events[t] \in Seq(Nat) /\ i \in 1..Len(events[t]) /\ events[t][i] \in Nat
      BY <2>1 DEF TabShape
    <3>2. Hears(t, events[t][i])
      BY <3>1 DEF Hears
    <3> QED
      BY <2>1, <3>1, <3>2 DEF TabShape, ServerShape
  <2> QED
    BY <2>1, <2>2 DEF ServerShape, TabShape, SessionTypeOK
<1> QED
  BY <1>1, SInvHolds, PTL

\* Of the cached login a tab redeems only the live token, however often tabs log
\* in and out, reload, fail, and hear late of each other.
THEOREM NeverReplayedTheorem == SessionSpec => []NeverReplayed
  BY SInvHolds, PTL DEF SInv

\* The pair kept in the cache can be redeemed, or is being redeemed.
THEOREM CacheIsRedeemableTheorem == SessionSpec => []CacheIsRedeemable
  BY SInvHolds, PTL DEF SInv

\* No tab that gives up wipes a pair that still works, with or without the lock.
THEOREM OnlyDeadPairsAreWipedTheorem == SessionSpec => OnlyDeadPairsAreWiped
<1>1. ASSUME SInv, SessionNext, cache # NoPair, cache' = NoPair
      PROVE  out' \/ cache \notin live \/ cache <= gone
  <2>0. ServerShape /\ TabShape /\ RefusedAreDead
    BY <1>1 DEF SInv
  <2>1. ASSUME NEW t \in Tab, Start(t) PROVE FALSE
    <3>1. cache' = latest + 1 /\ latest \in Nat
      BY <2>0, <2>1 DEF Start, CacheWrite, ServerShape
    <3> QED
      BY <1>1, <3>1
  <2>2. ASSUME NEW t \in Tab, Logout(t) PROVE out'
    BY <2>2 DEF Logout
  <2>3. ASSUME NEW t \in Tab, CannotRefresh(t) PROVE cache <= gone
    BY <1>1, <2>3 DEF CannotRefresh, Expire
  <2>4. ASSUME NEW t \in Tab, IsRefused(t) PROVE cache \notin live \/ cache <= gone
    BY <1>1, <2>0, <2>4 DEF IsRefused, Expire, RefusedAreDead
  <2>5. ASSUME NEW t \in Tab, Commit(t) PROVE FALSE
    BY <1>1, <2>5 DEF Commit, CacheWrite
  <2>6. ASSUME cache' = cache PROVE FALSE
    BY <1>1, <2>6
  <2> QED
    BY <1>1, <2>1, <2>2, <2>3, <2>4, <2>5, <2>6 DEF SessionNext, Age, OnCrossTab, Reload,
       EnsureFresh, AcquireTimesOut, Adopt, FindFresh, Ask, Redeem, RefreshFails
<1>2. ASSUME SInv, [SessionNext]_sessionVars
      PROVE  [cache # NoPair /\ cache' = NoPair
                => out' \/ cache \notin live \/ cache <= gone]_sessionVars
  BY <1>1, <1>2
<1> QED
  BY <1>2, SInvHolds, PTL DEF SessionSpec, OnlyDeadPairsAreWiped
=============================================================================
