--------------------------- MODULE DatabaseProofs ---------------------------
(***************************************************************************)
(* Proofs about Database: transactions are whole, for any names, pools,     *)
(* depth and number of calls and writes, with connections renamed and       *)
(* closed under them.                                                       *)
(***************************************************************************)
EXTENDS Database, FiniteSetTheorems, SequenceTheorems, TLAPS

Rows == [pool : Nat, scope : Nat, n : Nat]
Calls == [pool : Nat, own : BOOLEAN, writes : SUBSET Rows, scope : Nat]
Answers == {"running", "nil", "error", "commit failed"}

RegistryInv ==
  /\ opened \in Nat
  /\ connections \in [DbNames -> SUBSET Nat]
  /\ openPools \subseteq Nat
DbType ==
  /\ entries \in Seq(Calls) /\ scopes \in Nat /\ answered \in Seq(Answers) /\ Len(answered) = scopes
  /\ IsFiniteSet(written) /\ written \in SUBSET Rows /\ durable \in SUBSET written
\* Every call has, at or below it, the call that began the transaction of its
\* pool, and a pool has one transaction.
Joined ==
  /\ \A i \in 1..Len(entries) : \E k \in 1..i :
        entries[k].own /\ entries[k].pool = entries[i].pool /\ entries[k].scope = entries[i].scope
  /\ \A i, j \in 1..Len(entries) : entries[i].own /\ entries[j].own /\ i # j =>
        entries[i].pool # entries[j].pool /\ entries[i].scope # entries[j].scope
\* A transaction holds the writes of its scope, which runs; only they are of it.
Holds ==
  /\ \A i \in 1..Len(entries) :
        IF entries[i].own
        THEN /\ entries[i].scope \in 1..scopes /\ answered[entries[i].scope] = "running"
             /\ entries[i].writes = {w \in written : w.scope = entries[i].scope}
        ELSE entries[i].writes = {}
  /\ \A s \in 1..scopes : answered[s] = "running" => \E i \in 1..Len(entries) : entries[i].own /\ entries[i].scope = s
  /\ \A w \in written : w.scope \in 0..scopes
DbInv == RegistryInv /\ DbType /\ Joined /\ Holds /\ TransactionsWhole

LEMMA DbInvInit == DbInit => DbInv
<1> SUFFICES ASSUME DbInit PROVE DbInv
    BY Zenon
<1>1. RegistryInv
    BY Zenon DEF DbInit, RegistryInv
<1>2. DbType
    BY FS_EmptySet DEF DbInit, DbType
<1>3. Joined /\ Holds /\ TransactionsWhole
    BY DEF DbInit, Joined, Holds, TransactionsWhole
<1>4. QED
    BY <1>1, <1>2, <1>3, Zenon DEF DbInv

\* Where no call is in progress on a pool there is no transaction and no
\* scope; elsewhere there is one call that began it, and its scope is the
\* scope of the pool.
LEMMA OneOwner ==
    ASSUME DbInv, NEW pool \in Nat
    PROVE  \/ /\ TxFor(pool) = {} /\ ScopeOf(pool) = 0
              /\ \A i \in 1..Len(entries) : entries[i].pool # pool
           \/ \E k \in 1..Len(entries) : /\ entries[k].own /\ entries[k].pool = pool
                                         /\ TxFor(pool) = {k} /\ ScopeOf(pool) = entries[k].scope
<1> DEFINE calls == {i \in 1..Len(entries) : entries[i].pool = pool}
<1>0. entries \in Seq(Calls) /\ Len(entries) \in Nat /\ Joined
    BY DEF DbInv, DbType
<1>1. CASE calls = {}
    <2>1. \A i \in 1..Len(entries) : entries[i].pool # pool
        BY <1>1, Zenon
    <2>2. TxFor(pool) = {}
        BY <2>1, Zenon DEF TxFor
    <2>3. ScopeOf(pool) = 0
        BY <1>1, Zenon DEF ScopeOf
    <2>4. QED
        BY <2>1, <2>2, <2>3, Zenon
<1>2. CASE calls # {}
    <2>1. PICK i \in 1..Len(entries) : entries[i].pool = pool
        BY <1>2, Zenon
    <2>2. PICK k \in 1..i : entries[k].own /\ entries[k].pool = pool
        BY <1>0, <2>1, Zenon DEF Joined
    <2>3. k \in 1..Len(entries) /\ k \in calls
        BY <1>0, <2>1, <2>2
    <2>4. \A j \in 1..Len(entries) : entries[j].own /\ entries[j].pool = pool => j = k
        BY <1>0, <2>2, <2>3, Zenon DEF Joined
    <2>5. TxFor(pool) = {k}
        <3>1. k \in TxFor(pool)
            BY <1>0, <2>2, <2>3, <2>4 DEF TxFor
        <3>2. \A j \in TxFor(pool) : j = k
            BY <2>4, Zenon DEF TxFor
        <3>3. QED
            BY <3>1, <3>2, Zenon
    <2>6. \A j \in calls : k <= j
        <3> TAKE j \in calls
        <3>1. PICK m \in 1..j : entries[m].own /\ entries[m].pool = pool
            BY <1>0 DEF Joined
        <3>2. m = k
            BY <1>0, <2>4, <3>1
        <3>3. QED
            BY <1>0, <3>1, <3>2
    <2>7. (CHOOSE x \in calls : \A j \in calls : x <= j) = k
        <3>1. calls \in SUBSET Nat
            BY <1>0
        <3> HIDE DEF calls
        <3>2. \A x \in calls : (\A j \in calls : x <= j) => x = k
            BY <2>3, <2>6, <3>1
        <3>3. QED
            BY <2>3, <2>6, <3>2, Zenon
    <2>8. ScopeOf(pool) = entries[k].scope
        BY <1>2, <2>7, Zenon DEF ScopeOf
    <2>9. QED
        BY <2>2, <2>3, <2>5, <2>8, Zenon
<1>3. QED
    BY <1>1, <1>2, Zenon

-----------------------------------------------------------------------------
LEMMA RegistrySteps ==
    ASSUME DbInv,
           \/ \E n \in DbNames : Register(n)
           \/ \E n \in DbNames, pool \in 0..MaxPools : AddConnection(n, pool)
           \/ CloseAll \/ UNCHANGED dbVars
    PROVE  DbInv'
<1>0. opened \in Nat /\ connections \in [DbNames -> SUBSET Nat] /\ openPools \subseteq Nat
    BY Zenon DEF DbInv, RegistryInv
<1>1. UNCHANGED txVars
    BY Zenon DEF Register, AddConnection, CloseAll, dbVars, txVars
<1>2. RegistryInv'
    <2>1. ASSUME NEW n \in DbNames, Register(n) PROVE RegistryInv'
        <3>1. opened' \in Nat /\ connections' = [connections EXCEPT ![n] = {opened'}] /\ openPools' = openPools \cup {opened'}
            BY <1>0, <2>1 DEF Register
        <3>2. connections' \in [DbNames -> SUBSET Nat]
            BY <1>0, <3>1, Zenon
        <3>3. QED
            BY <1>0, <3>1, <3>2, Zenon DEF RegistryInv
    <2>2. ASSUME NEW n \in DbNames, NEW pool \in 0..MaxPools, AddConnection(n, pool) PROVE RegistryInv'
        <3>1. pool \in Nat /\ connections' = [connections EXCEPT ![n] = {pool}]
            BY <2>2, DatabaseAccessAssumption DEF AddConnection
        <3>2. opened' \in Nat /\ openPools' \subseteq Nat
            BY <1>0, <2>2, <3>1, Zenon DEF AddConnection
        <3>3. connections' \in [DbNames -> SUBSET Nat]
            BY <1>0, <3>1, Zenon
        <3>4. QED
            BY <3>2, <3>3, Zenon DEF RegistryInv
    <2>3. CASE CloseAll
        <3>1. openPools' \subseteq Nat /\ opened' = opened /\ connections' \in [DbNames -> SUBSET Nat]
            BY <1>0, <2>3, Zenon DEF CloseAll
        <3>2. QED
            BY <1>0, <3>1, Zenon DEF RegistryInv
    <2>4. CASE UNCHANGED dbVars
        BY <1>0, <2>4, Zenon DEF RegistryInv, dbVars
    <2>5. QED
        BY <2>1, <2>2, <2>3, <2>4, Zenon
<1>3. entries' = entries /\ written' = written /\ durable' = durable /\ scopes' = scopes /\ answered' = answered
    BY <1>1, Zenon DEF txVars
<1>4. DbType' /\ TransactionsWhole'
    BY <1>3, Zenon DEF DbInv, DbType, TransactionsWhole
<1>5. Joined'
    BY <1>3, Zenon DEF DbInv, Joined
<1>6. Holds'
    BY <1>3 DEF DbInv, Holds
<1>7. QED
    BY <1>2, <1>4, <1>5, <1>6, Zenon DEF DbInv

LEMMA RegistryStays == ASSUME DbInv, UNCHANGED registryVars PROVE RegistryInv'
BY Zenon DEF DbInv, RegistryInv, registryVars

\* A call begins a transaction on a pool that has none.
LEMMA BeginKeeps ==
    ASSUME DbInv, NEW pool \in Nat, TxFor(pool) = {}, \A i \in 1..Len(entries) : entries[i].pool # pool,
           scopes' = scopes + 1,
           entries' = Append(entries, [pool |-> pool, own |-> TRUE, writes |-> {}, scope |-> scopes + 1]),
           answered' = Append(answered, "running"),
           UNCHANGED <<written, durable, registryVars>>
    PROVE  DbInv'
<1> DEFINE e == [pool |-> pool, own |-> TRUE, writes |-> {}, scope |-> scopes + 1]
<1>0. /\ entries \in Seq(Calls) /\ scopes \in Nat /\ answered \in Seq(Answers) /\ Len(answered) = scopes
      /\ Len(entries) \in Nat /\ e \in Calls /\ "running" \in Answers
    <2>1. entries \in Seq(Calls) /\ scopes \in Nat /\ answered \in Seq(Answers) /\ Len(answered) = scopes /\ Len(entries) \in Nat
        BY DEF DbInv, DbType
    <2>2. scopes + 1 \in Nat /\ TRUE \in BOOLEAN /\ {} \in SUBSET Rows
        BY <2>1
    <2>3. e \in Calls
        BY <2>2, Zenon DEF Calls
    <2>4. QED
        BY <2>1, <2>3, Zenon DEF Answers
<1>1. e.pool = pool /\ e.own /\ e.writes = {} /\ e.scope = scopes + 1
    BY Zenon
<1> HIDE DEF e
<1>2. Len(entries') = Len(entries) + 1 /\ entries'[Len(entries) + 1] = e /\ \A i \in 1..Len(entries) : entries'[i] = entries[i]
    BY <1>0 DEF e
<1>3. Len(answered') = scopes + 1 /\ answered'[scopes + 1] = "running" /\ \A s \in 1..scopes : answered'[s] = answered[s]
    BY <1>0
<1>4. DbType'
    BY <1>0, <1>3 DEF DbInv, DbType, e
<1>5. \A i \in 1..Len(entries) : entries[i].own => entries[i].scope \in 1..scopes
    BY Zenon DEF DbInv, Holds
<1>6. Joined'
    <2>1. ASSUME NEW i \in 1..Len(entries')
          PROVE \E k \in 1..i : entries'[k].own /\ entries'[k].pool = entries'[i].pool /\ entries'[k].scope = entries'[i].scope
        <3>1. CASE i = Len(entries) + 1
            BY <1>0, <1>1, <1>2, <3>1, Zenon
        <3>2. CASE i # Len(entries) + 1
            <4>1. i \in 1..Len(entries)
                BY <1>0, <1>2, <3>2
            <4>2. PICK k \in 1..i : entries[k].own /\ entries[k].pool = entries[i].pool /\ entries[k].scope = entries[i].scope
                BY <4>1, Zenon DEF DbInv, Joined
            <4>3. k \in 1..Len(entries)
                BY <1>0, <4>1
            <4>4. QED
                BY <1>2, <4>1, <4>2, <4>3, Zenon
        <3>3. QED
            BY <3>1, <3>2, Zenon
    <2>2. ASSUME NEW i \in 1..Len(entries'), NEW j \in 1..Len(entries'), entries'[i].own, entries'[j].own, i # j
          PROVE entries'[i].pool # entries'[j].pool /\ entries'[i].scope # entries'[j].scope
        <3>1. \A m \in 1..Len(entries') : m = Len(entries) + 1 \/ m \in 1..Len(entries)
            BY <1>0, <1>2
        <3>2. \A m \in 1..Len(entries) : entries[m].own => entries[m].scope # scopes + 1 /\ entries[m].pool # pool
            BY <1>0, <1>5
        <3>3. QED
            BY <1>1, <1>2, <2>2, <3>1, <3>2 DEF DbInv, Joined
    <2>3. QED
        BY <2>1, <2>2, Zenon DEF Joined
<1>7. written' = written /\ durable' = durable /\ \A w \in written : w.scope \in 0..scopes /\ w.scope \in 0..scopes'
    BY <1>0 DEF DbInv, Holds
<1>8. Holds'
    <2>1. ASSUME NEW i \in 1..Len(entries')
          PROVE  IF entries'[i].own
                 THEN /\ entries'[i].scope \in 1..scopes' /\ answered'[entries'[i].scope] = "running"
                      /\ entries'[i].writes = {w \in written' : w.scope = entries'[i].scope}
                 ELSE entries'[i].writes = {}
        <3>1. CASE i = Len(entries) + 1
            <4>1. {w \in written : w.scope = scopes + 1} = {}
                BY <1>0, <1>7
            <4>2. QED
                BY <1>0, <1>1, <1>2, <1>3, <1>7, <3>1, <4>1
        <3>2. CASE i \in 1..Len(entries)
            <4>1. entries'[i] = entries[i]
                BY <1>2, <3>2, Zenon
            <4>2. CASE entries[i].own
                <5>1. /\ entries[i].scope \in 1..scopes /\ answered[entries[i].scope] = "running"
                      /\ entries[i].writes = {w \in written : w.scope = entries[i].scope}
                    BY <3>2, <4>2, Zenon DEF DbInv, Holds
                <5>2. QED
                    BY <1>0, <1>3, <1>7, <4>1, <4>2, <5>1
            <4>3. CASE ~entries[i].own
                BY <3>2, <4>1, <4>3, Zenon DEF DbInv, Holds
            <4>4. QED
                BY <4>2, <4>3, Zenon
        <3>3. QED
            BY <1>0, <1>2, <3>1, <3>2
    <2>2. ASSUME NEW s \in 1..scopes', answered'[s] = "running" PROVE \E i \in 1..Len(entries') : entries'[i].own /\ entries'[i].scope = s
        <3>1. CASE s = scopes + 1
            BY <1>0, <1>1, <1>2, <3>1, SMTT(20)
        <3>2. CASE s \in 1..scopes
            <4>1. PICK i \in 1..Len(entries) : entries[i].own /\ entries[i].scope = s
                BY <1>3, <2>2, <3>2 DEF DbInv, Holds
            <4>2. QED
                BY <1>0, <1>2, <4>1
        <3>3. QED
            BY <1>0, <3>1, <3>2
    <2>3. QED
        BY <1>7, <2>1, <2>2, Zenon DEF Holds
<1>9. TransactionsWhole'
    <2>1. \A w \in written : w.scope # 0 => answered'[w.scope] = answered[w.scope]
        BY <1>0, <1>3, <1>7
    <2>2. QED
        BY <1>7, <2>1, Zenon DEF DbInv, TransactionsWhole
<1>10. QED
    BY <1>4, <1>6, <1>8, <1>9, RegistryStays, Zenon DEF DbInv

\* A call joins the transaction of its pool.
LEMMA JoinKeeps ==
    ASSUME DbInv, NEW pool \in Nat, NEW k \in 1..Len(entries), entries[k].own, entries[k].pool = pool,
           entries' = Append(entries, [pool |-> pool, own |-> FALSE, writes |-> {}, scope |-> entries[k].scope]),
           UNCHANGED <<scopes, answered, written, durable, registryVars>>
    PROVE  DbInv'
<1> DEFINE e == [pool |-> pool, own |-> FALSE, writes |-> {}, scope |-> entries[k].scope]
<1>0. entries \in Seq(Calls) /\ Len(entries) \in Nat /\ entries[k] \in Calls /\ e \in Calls
    <2>1. entries \in Seq(Calls) /\ Len(entries) \in Nat /\ entries[k] \in Calls
        BY DEF DbInv, DbType
    <2>2. entries[k].scope \in Nat /\ FALSE \in BOOLEAN /\ {} \in SUBSET Rows
        BY <2>1, Zenon DEF Calls
    <2>3. e \in Calls
        BY <2>2, Zenon DEF Calls
    <2>4. QED
        BY <2>1, <2>3, Zenon
<1>1. e.pool = pool /\ ~e.own /\ e.writes = {} /\ e.scope = entries[k].scope
    BY Zenon
<1> HIDE DEF e
<1>2. Len(entries') = Len(entries) + 1 /\ entries'[Len(entries) + 1] = e /\ \A i \in 1..Len(entries) : entries'[i] = entries[i]
    BY <1>0 DEF e
<1>3. DbType'
    BY <1>0 DEF DbInv, DbType, e
<1>4. \A i \in 1..Len(entries') : i = Len(entries) + 1 \/ i \in 1..Len(entries)
    BY <1>0, <1>2
<1>5. Joined'
    <2>1. ASSUME NEW i \in 1..Len(entries')
          PROVE \E m \in 1..i : entries'[m].own /\ entries'[m].pool = entries'[i].pool /\ entries'[m].scope = entries'[i].scope
        <3>1. CASE i = Len(entries) + 1
            BY <1>0, <1>1, <1>2, <3>1
        <3>2. CASE i \in 1..Len(entries)
            <4>1. PICK m \in 1..i : entries[m].own /\ entries[m].pool = entries[i].pool /\ entries[m].scope = entries[i].scope
                BY <3>2, Zenon DEF DbInv, Joined
            <4>2. m \in 1..Len(entries)
                BY <1>0, <3>2
            <4>3. QED
                BY <1>2, <3>2, <4>1, <4>2, Zenon
        <3>3. QED
            BY <1>4, <3>1, <3>2, Zenon
    <2>2. ASSUME NEW i \in 1..Len(entries'), NEW j \in 1..Len(entries'), entries'[i].own, entries'[j].own, i # j
          PROVE entries'[i].pool # entries'[j].pool /\ entries'[i].scope # entries'[j].scope
        BY <1>1, <1>2, <1>4, <2>2, SMTT(20) DEF DbInv, Joined
    <2>3. QED
        BY <2>1, <2>2, Zenon DEF Joined
<1>6. Holds'
    <2>1. ASSUME NEW i \in 1..Len(entries')
          PROVE  IF entries'[i].own
                 THEN /\ entries'[i].scope \in 1..scopes' /\ answered'[entries'[i].scope] = "running"
                      /\ entries'[i].writes = {w \in written' : w.scope = entries'[i].scope}
                 ELSE entries'[i].writes = {}
        BY <1>1, <1>2, <1>4 DEF DbInv, Holds
    <2>2. ASSUME NEW s \in 1..scopes', answered'[s] = "running" PROVE \E i \in 1..Len(entries') : entries'[i].own /\ entries'[i].scope = s
        <3>1. PICK i \in 1..Len(entries) : entries[i].own /\ entries[i].scope = s
            BY <2>2, Zenon DEF DbInv, Holds
        <3>2. QED
            BY <1>0, <1>2, <3>1
    <2>3. QED
        BY <2>1, <2>2, Zenon DEF DbInv, Holds
<1>7. TransactionsWhole'
    BY Zenon DEF DbInv, TransactionsWhole
<1>8. QED
    BY <1>3, <1>5, <1>6, <1>7, RegistryStays, Zenon DEF DbInv

LEMMA WithinKeeps == ASSUME DbInv, NEW pool \in Nat, WithinTransaction(pool) PROVE DbInv'
<1>1. /\ scopes' = scopes + (IF ScopeOf(pool) = 0 THEN 1 ELSE 0)
      /\ entries' = Append(entries, [pool |-> pool, own |-> TxFor(pool) = {}, writes |-> {},
                                     scope |-> IF ScopeOf(pool) = 0 THEN scopes' ELSE ScopeOf(pool)])
      /\ answered' = IF ScopeOf(pool) = 0 THEN Append(answered, "running") ELSE answered
    BY Zenon DEF WithinTransaction
<1>2. pool \in Nat /\ scopes \in Nat /\ UNCHANGED <<written, durable, registryVars>>
    BY Zenon DEF DbInv, DbType, WithinTransaction
<1>3. CASE TxFor(pool) = {} /\ ScopeOf(pool) = 0 /\ \A i \in 1..Len(entries) : entries[i].pool # pool
    <2>1. entries' = Append(entries, [pool |-> pool, own |-> TRUE, writes |-> {}, scope |-> scopes + 1])
        <3>1. (TxFor(pool) = {}) = TRUE /\ scopes' = scopes + 1
            BY <1>1, <1>2, <1>3, Zenon
        <3>2. QED
            BY <1>1, <1>3, <3>1, Zenon
    <2>2. scopes' = scopes + 1 /\ answered' = Append(answered, "running")
        BY <1>1, <1>2, <1>3, Zenon
    <2>3. QED
        BY <1>2, <1>3, <2>1, <2>2, BeginKeeps, Zenon
<1>4. ASSUME NEW k \in 1..Len(entries), entries[k].own, entries[k].pool = pool, TxFor(pool) = {k}, ScopeOf(pool) = entries[k].scope
      PROVE  DbInv'
    <2>1. ScopeOf(pool) # 0 /\ ScopeOf(pool) \in Nat
        BY <1>2, <1>4 DEF DbInv, Holds
    <2>2. entries' = Append(entries, [pool |-> pool, own |-> FALSE, writes |-> {}, scope |-> entries[k].scope])
        <3>1. (TxFor(pool) = {}) = FALSE
            BY <1>4, Zenon
        <3>2. QED
            BY <1>1, <1>4, <2>1, <3>1, Zenon
    <2>3. scopes' = scopes /\ answered' = answered
        BY <1>1, <1>2, <2>1
    <2>4. QED
        BY <1>2, <1>4, <2>2, <2>3, JoinKeeps, Zenon
<1>5. QED
    BY <1>2, <1>3, <1>4, OneOwner, Zenon

\* What the innermost call's return does: one that joined leaves everything
\* to the call that began; one that began ends its scope.
Ends(how, kept) ==
  /\ answered' = [answered EXCEPT ![Innermost.scope] = how]
  /\ durable' = IF kept THEN durable \cup Innermost.writes ELSE durable
Returns ==
  IF Innermost.own THEN Ends("error", FALSE) \/ Ends("nil", TRUE) \/ Ends("commit failed", FALSE) \/ Ends("commit failed", TRUE)
  ELSE answered' = answered /\ durable' = durable

LEMMA FrontIs ==
    ASSUME NEW S, NEW q \in Seq(S), NEW f, q # <<>>, f = SubSeq(q, 1, Len(q) - 1)
    PROVE  f \in Seq(S) /\ Len(f) = Len(q) - 1 /\ \A i \in 1..(Len(q) - 1) : f[i] = q[i] /\ i \in 1..Len(q)
<1>1. Len(q) \in Nat /\ Len(q) >= 1
    OBVIOUS
<1>2. Len(q) - 1 \in Int /\ 1 \in Int /\ \A i \in 1..(Len(q) - 1) : q[i] \in S /\ i \in 1..Len(q)
    BY <1>1
<1>3. /\ f \in Seq(S) /\ Len(f) = IF 1 <= Len(q) - 1 THEN Len(q) - 1 - 1 + 1 ELSE 0
      /\ \A i \in 1..(Len(q) - 1 - 1 + 1) : f[i] = q[1 + i - 1]
    BY <1>2, SubSeqProperties
<1>4. \A i \in 1..(Len(q) - 1) : i \in 1..(Len(q) - 1 - 1 + 1) /\ 1 + i - 1 = i
    BY <1>1
<1>5. Len(f) = Len(q) - 1
    <2>1. PICK n \in Nat : n = Len(q)
        BY <1>1, Zenon
    <2>2. PICK m : m = Len(f)
        BY Zenon
    <2>3. n >= 1 /\ m = IF 1 <= n - 1 THEN n - 1 - 1 + 1 ELSE 0
        BY <1>1, <1>3, <2>1, <2>2, Zenon
    <2>4. m = n - 1
        BY ONLY <2>3, n \in Nat
    <2>5. QED
        BY <2>1, <2>2, <2>4, Zenon
<1>6. \A i \in 1..(Len(q) - 1) : f[i] = q[i]
    BY <1>3, <1>4, Zenon
<1>7. QED
    BY <1>2, <1>3, <1>5, <1>6, Zenon

LEMMA ReplacedIs ==
    ASSUME NEW S, NEW q \in Seq(S), NEW k \in 1..Len(q), NEW v \in S, NEW f, f = [q EXCEPT ![k] = v]
    PROVE  f \in Seq(S) /\ Len(f) = Len(q) /\ f[k] = v /\ \A i \in 1..Len(q) : i # k => f[i] = q[i]
OBVIOUS

LEMMA PopKeeps ==
    ASSUME DbInv, entries # <<>>, entries' = SubSeq(entries, 1, Len(entries) - 1), UNCHANGED <<written, scopes, registryVars>>,
           Returns
    PROVE  DbInv'
<1> DEFINE last == Len(entries)
           s == Innermost.scope
<1>0. /\ entries \in Seq(Calls) /\ last \in Nat /\ last >= 1 /\ Innermost = entries[last] /\ Innermost \in Calls
      /\ scopes \in Nat /\ answered \in Seq(Answers) /\ Len(answered) = scopes
    BY DEF DbInv, DbType, Innermost
<1>1. /\ Len(entries') = last - 1 /\ \A i \in 1..(last - 1) : entries'[i] = entries[i] /\ i \in 1..last
      /\ entries' \in Seq(Calls)
    BY <1>0, FrontIs, ZenonT(30)
<1>2. Innermost.own => /\ s \in 1..scopes /\ answered[s] = "running" /\ Innermost.writes = {w \in written : w.scope = s}
                       /\ \A i \in 1..(last - 1) : entries[i].own => entries[i].scope # s
    BY <1>0 DEF DbInv, Holds, Joined
<1>12. ASSUME Innermost.own
       PROVE  /\ answered' \in Seq(Answers) /\ Len(answered') = scopes
              /\ \A x \in 1..scopes : x # s => answered'[x] = answered[x]
              /\ \/ answered'[s] = "error" /\ durable' = durable
                 \/ answered'[s] = "nil" /\ durable' = durable \cup Innermost.writes
                 \/ answered'[s] = "commit failed" /\ (durable' = durable \/ durable' = durable \cup Innermost.writes)
    <2>0. s \in 1..Len(answered)
        BY <1>0, <1>2, <1>12, Zenon
    <2>1. ASSUME NEW how \in Answers, answered' = [answered EXCEPT ![s] = how]
          PROVE  answered' \in Seq(Answers) /\ Len(answered') = scopes /\ answered'[s] = how
                 /\ \A x \in 1..scopes : x # s => answered'[x] = answered[x]
        BY <1>0, <2>0, <2>1, ReplacedIs
    <2>2. Ends("error", FALSE) \/ Ends("nil", TRUE) \/ Ends("commit failed", FALSE) \/ Ends("commit failed", TRUE)
        BY <1>12, Zenon DEF Returns
    <2>3. "error" \in Answers /\ "nil" \in Answers /\ "commit failed" \in Answers
        BY Zenon DEF Answers
    <2>4. CASE Ends("error", FALSE)
        <3>1. answered' = [answered EXCEPT ![s] = "error"] /\ durable' = durable
            BY <2>4, Zenon DEF Ends
        <3>2. QED
            BY <2>1, <2>3, <3>1, Zenon
    <2>5. CASE Ends("nil", TRUE)
        <3>1. answered' = [answered EXCEPT ![s] = "nil"] /\ durable' = durable \cup Innermost.writes
            BY <2>5, Zenon DEF Ends
        <3>2. QED
            BY <2>1, <2>3, <3>1, Zenon
    <2>6. CASE Ends("commit failed", FALSE) \/ Ends("commit failed", TRUE)
        <3>1. answered' = [answered EXCEPT ![s] = "commit failed"] /\ (durable' = durable \/ durable' = durable \cup Innermost.writes)
            BY <2>6, Zenon DEF Ends
        <3>2. QED
            BY <2>1, <2>3, <3>1, Zenon
    <2>7. QED
        BY <2>2, <2>4, <2>5, <2>6, Zenon
<1>3. \A x \in 1..scopes : (~Innermost.own \/ x # s) => answered'[x] = answered[x]
    BY <1>12, Zenon DEF Returns
<1>4. Innermost.own => \/ answered'[s] = "error" /\ durable' = durable
                       \/ answered'[s] = "nil" /\ durable' = durable \cup Innermost.writes
                       \/ answered'[s] = "commit failed" /\ (durable' = durable \/ durable' = durable \cup Innermost.writes)
    BY <1>12, Zenon
<1>5. answered' \in Seq(Answers) /\ Len(answered') = scopes
    BY <1>0, <1>12, Zenon DEF Returns
<1>6. ~Innermost.own => durable' = durable
    BY Zenon DEF Returns
<1>7. DbType'
    BY <1>1, <1>2, <1>4, <1>5, <1>6, Zenon DEF DbInv, DbType
<1>8. Joined'
    <2>1. ASSUME NEW i \in 1..Len(entries')
          PROVE \E k \in 1..i : entries'[k].own /\ entries'[k].pool = entries'[i].pool /\ entries'[k].scope = entries'[i].scope
        <3>1. PICK k \in 1..i : entries[k].own /\ entries[k].pool = entries[i].pool /\ entries[k].scope = entries[i].scope
            BY <1>0, <1>1, Zenon DEF DbInv, Joined
        <3>2. k \in 1..(last - 1) /\ i \in 1..(last - 1)
            BY <1>0, <1>1
        <3>3. QED
            BY <1>1, <3>1, <3>2, Zenon
    <2>2. \A i, j \in 1..Len(entries') : entries'[i].own /\ entries'[j].own /\ i # j =>
              entries'[i].pool # entries'[j].pool /\ entries'[i].scope # entries'[j].scope
        BY <1>0, <1>1, SMTT(20) DEF DbInv, Joined
    <2>3. QED
        BY <2>1, <2>2, Zenon DEF Joined
<1>9. Holds'
    <2>1. ASSUME NEW i \in 1..Len(entries')
          PROVE  IF entries'[i].own
                 THEN /\ entries'[i].scope \in 1..scopes' /\ answered'[entries'[i].scope] = "running"
                      /\ entries'[i].writes = {w \in written' : w.scope = entries'[i].scope}
                 ELSE entries'[i].writes = {}
        BY <1>0, <1>1, <1>2, <1>3, SMTT(20) DEF DbInv, Holds
    <2>2. ASSUME NEW x \in 1..scopes', answered'[x] = "running" PROVE \E i \in 1..Len(entries') : entries'[i].own /\ entries'[i].scope = x
        <3>1. answered[x] = "running" /\ (~Innermost.own \/ x # s)
            BY <1>2, <1>3, <1>4, <2>2, Zenon
        <3>2. PICK i \in 1..last : entries[i].own /\ entries[i].scope = x
            BY <3>1, Zenon DEF DbInv, Holds
        <3>3. i # last
            BY <1>0, <3>1, <3>2, Zenon
        <3>4. i \in 1..(last - 1)
            BY <1>0, <3>2, <3>3
        <3>5. i \in 1..Len(entries') /\ entries'[i] = entries[i]
            BY <1>1, <3>4, Zenon
        <3>6. QED
            BY <3>2, <3>5, Zenon
    <2>3. QED
        BY <2>1, <2>2, Zenon DEF DbInv, Holds
<1>10. TransactionsWhole'
    <2>1. CASE ~Innermost.own
        <3>1. answered' = answered /\ durable' = durable
            BY <2>1, Zenon DEF Returns
        <3>2. QED
            BY <3>1, Zenon DEF DbInv, TransactionsWhole
    <2>2. CASE Innermost.own
        <3>1. \A w \in written : w.scope \in 0..scopes /\ (w.scope = s => w \notin durable)
            BY <1>0, <1>2, <2>2 DEF DbInv, Holds, TransactionsWhole
        <3>2. \A w \in written : w.scope # s => (w \in durable' <=> w \in durable)
            BY <1>2, <1>4, <2>2, Zenon
        <3>3. ASSUME NEW w \in written, w.scope # 0, w.scope # s
              PROVE /\ \A v \in written : v.scope = w.scope => (v \in durable' <=> w \in durable')
                    /\ answered'[w.scope] = "nil" => w \in durable'
                    /\ answered'[w.scope] \in {"running", "error"} => w \notin durable'
            <4>1. answered'[w.scope] = answered[w.scope]
                BY <1>0, <1>3, <3>1, <3>3
            <4>2. QED
                BY <3>2, <3>3, <4>1, Zenon DEF DbInv, TransactionsWhole
        <3>4. ASSUME NEW w \in written, w.scope = s
              PROVE /\ \A v \in written : v.scope = w.scope => (v \in durable' <=> w \in durable')
                    /\ answered'[w.scope] = "nil" => w \in durable'
                    /\ answered'[w.scope] \in {"running", "error"} => w \notin durable'
            BY <1>0, <1>2, <1>4, <2>2, <3>1, <3>4, Zenon
        <3>5. QED
            BY <3>3, <3>4, Zenon DEF TransactionsWhole
    <2>3. QED
        BY <2>1, <2>2, Zenon
<1>11. QED
    BY <1>7, <1>8, <1>9, <1>10, RegistryStays, Zenon DEF DbInv

LEMMA ReturnKeeps == ASSUME DbInv, ReturnNil \/ ReturnError PROVE DbInv'
<1>0. entries # <<>> /\ entries' = SubSeq(entries, 1, Len(entries) - 1) /\ UNCHANGED <<written, scopes, registryVars>>
    BY Zenon DEF ReturnNil, ReturnError
<1>1. Innermost = entries[Len(entries)] /\ Len(entries) \in 1..Len(entries)
    <2>1. entries \in Seq(Calls)
        BY Zenon DEF DbInv, DbType
    <2>2. QED
        BY <1>0, <2>1 DEF Innermost
<1>2. IF Innermost.own THEN answered[Innermost.scope] = "running" ELSE Innermost.writes = {}
    BY <1>1, Zenon DEF DbInv, Holds
<1>3. ASSUME NEW how, Answer(how)
      PROVE  IF Innermost.own THEN answered' = [answered EXCEPT ![Innermost.scope] = how] ELSE answered' = answered
    BY <1>2, <1>3, Zenon DEF Answer
<1>4. CASE ReturnError
    <2>1. durable' = durable /\ Answer("error")
        BY <1>4, Zenon DEF ReturnError
    <2>2. Innermost.own => Ends("error", FALSE)
        BY <1>3, <2>1, Zenon DEF Ends
    <2>3. ~Innermost.own => answered' = answered
        BY <1>3, <2>1, Zenon
    <2>4. QED
        BY <1>0, <2>1, <2>2, <2>3, PopKeeps, Zenon DEF Returns
<1>5. CASE ReturnNil
    <2>1. CASE durable' = durable \cup Innermost.writes /\ Answer("nil")
        <3>1. Innermost.own => Ends("nil", TRUE)
            BY <1>3, <2>1, Zenon DEF Ends
        <3>2. ~Innermost.own => answered' = answered /\ durable' = durable
            BY <1>2, <1>3, <2>1, Zenon
        <3>3. QED
            BY <1>0, <3>1, <3>2, PopKeeps, Zenon DEF Returns
    <2>2. CASE Innermost.own /\ durable' \in {durable, durable \cup Innermost.writes} /\ Answer("commit failed")
        <3>1. Ends("commit failed", FALSE) \/ Ends("commit failed", TRUE)
            BY <1>3, <2>2, Zenon DEF Ends
        <3>2. QED
            BY <1>0, <2>2, <3>1, PopKeeps, Zenon DEF Returns
    <2>3. QED
        BY <1>5, <2>1, <2>2, Zenon DEF ReturnNil
<1>6. QED
    BY <1>4, <1>5, Zenon

LEMMA PanicKeeps == ASSUME DbInv, Panics PROVE DbInv'
<1>0. /\ entries' = <<>> /\ UNCHANGED <<written, durable, scopes, registryVars>>
      /\ answered' = [s \in DOMAIN answered |-> IF answered[s] = "running" THEN "error" ELSE answered[s]]
      /\ scopes \in Nat /\ answered \in Seq(Answers) /\ Len(answered) = scopes
    BY Zenon DEF Panics, DbInv, DbType
<1>1. /\ answered' \in Seq(Answers) /\ Len(answered') = scopes
      /\ \A s \in 1..scopes : answered'[s] = IF answered[s] = "running" THEN "error" ELSE answered[s]
    <2>1. DOMAIN answered = 1..scopes /\ \A s \in 1..scopes : answered[s] \in Answers
        BY <1>0
    <2>2. answered' = [s \in 1..scopes |-> IF answered[s] = "running" THEN "error" ELSE answered[s]]
        BY <1>0, <2>1, Zenon
    <2>3. answered' \in [1..scopes -> Answers]
        BY <2>1, <2>2, Zenon DEF Answers
    <2>4. answered' \in Seq(Answers) /\ Len(answered') = scopes
        BY <1>0, <2>3
    <2>5. QED
        BY <2>2, <2>4, Zenon
<1>2. DbType'
    BY <1>0, <1>1 DEF DbInv, DbType
<1>3. Joined' /\ Holds'
    BY <1>0, <1>1 DEF DbInv, Joined, Holds
<1>4. TransactionsWhole'
    <2>1. \A w \in written : w.scope \in 0..scopes
        BY Zenon DEF DbInv, Holds
    <2>2. QED
        BY <1>0, <1>1, <2>1 DEF DbInv, TransactionsWhole
<1>5. QED
    BY <1>0, <1>2, <1>3, <1>4, RegistryStays, Zenon DEF DbInv

\* A row that is not of a running scope.
LEMMA RowKeeps ==
    ASSUME DbInv, NEW row \in Rows, row.scope = 0, written' = written \cup {row}, durable' = durable \cup {row},
           UNCHANGED <<entries, scopes, answered, registryVars>>
    PROVE  DbInv'
<1>0. scopes \in Nat /\ IsFiniteSet(written)
    BY Zenon DEF DbInv, DbType
<1>1. DbType'
    BY <1>0, FS_AddElement, Zenon DEF DbInv, DbType
<1>2. Joined'
    BY DEF DbInv, Joined
<1>3. \A s \in 1..scopes : {w \in written' : w.scope = s} = {w \in written : w.scope = s}
    BY <1>0
<1>4. Holds'
    BY <1>0, <1>3 DEF DbInv, Holds
<1>5. TransactionsWhole'
    BY Zenon DEF DbInv, TransactionsWhole
<1>6. QED
    BY <1>1, <1>2, <1>4, <1>5, RegistryStays, Zenon DEF DbInv

LEMMA FreshRow == ASSUME DbInv, NEW pool \in Nat, ScopeOf(pool) \in Nat PROVE Row(pool) \in Rows /\ Row(pool).scope = ScopeOf(pool)
<1>1. Cardinality(written) + 1 \in Nat
    BY FS_CardinalityType DEF DbInv, DbType
<1>2. QED
    BY <1>1, Zenon DEF Row, Rows

\* A row written in the transaction of call k.
LEMMA WriteKeeps ==
    ASSUME DbInv, NEW k \in 1..Len(entries), entries[k].own, NEW row \in Rows, row.scope = entries[k].scope,
           written' = written \cup {row},
           entries' = [i \in DOMAIN entries |-> IF i = k THEN [entries[i] EXCEPT !.writes = @ \cup {row}] ELSE entries[i]],
           UNCHANGED <<durable, scopes, answered, registryVars>>
    PROVE  DbInv'
<1> DEFINE e == [entries[k] EXCEPT !.writes = @ \cup {row}]
           s == entries[k].scope
<1>0. /\ entries \in Seq(Calls) /\ Len(entries) \in Nat /\ entries[k] \in Calls /\ scopes \in Nat /\ IsFiniteSet(written)
      /\ DOMAIN entries = 1..Len(entries)
    BY DEF DbInv, DbType
<1>1. /\ e \in Calls /\ e.own = entries[k].own /\ e.pool = entries[k].pool /\ e.scope = entries[k].scope
      /\ e.writes = entries[k].writes \cup {row}
    BY <1>0, Zenon DEF Calls
<1>2. entries' = [i \in 1..Len(entries) |-> IF i = k THEN e ELSE entries[i]]
    BY <1>0, Zenon
<1> HIDE DEF e
<1>3. /\ entries' \in Seq(Calls) /\ Len(entries') = Len(entries) /\ entries'[k] = e
      /\ \A i \in 1..Len(entries) : i # k => entries'[i] = entries[i]
    <2>1. entries' \in [1..Len(entries) -> Calls]
        <3>1. \A i \in 1..Len(entries) : entries[i] \in Calls
            BY <1>0
        <3>2. e \in Calls
            BY <1>1, Zenon
        <3>3. QED
            BY <1>2, <3>1, <3>2, Zenon
    <2>2. entries' \in Seq(Calls) /\ Len(entries') = Len(entries)
        BY <1>0, <2>1
    <2>3. QED
        BY <1>2, <2>2, Zenon
<1>4. DbType'
    BY <1>0, <1>3, FS_AddElement, Zenon DEF DbInv, DbType
<1>5. \A i \in 1..Len(entries) : /\ entries'[i].own = entries[i].own /\ entries'[i].pool = entries[i].pool
                                 /\ entries'[i].scope = entries[i].scope
    BY <1>1, <1>3, Zenon
<1>6. Joined'
    <2>1. ASSUME NEW i \in 1..Len(entries')
          PROVE \E m \in 1..i : entries'[m].own /\ entries'[m].pool = entries'[i].pool /\ entries'[m].scope = entries'[i].scope
        <3>1. PICK m \in 1..i : entries[m].own /\ entries[m].pool = entries[i].pool /\ entries[m].scope = entries[i].scope
            BY <1>3, Zenon DEF DbInv, Joined
        <3>2. m \in 1..Len(entries) /\ i \in 1..Len(entries)
            BY <1>0, <1>3
        <3>3. /\ entries'[m].own /\ entries'[m].pool = entries[m].pool /\ entries'[m].scope = entries[m].scope
              /\ entries'[i].pool = entries[i].pool /\ entries'[i].scope = entries[i].scope
            BY <1>5, <3>1, <3>2, Zenon
        <3>4. QED
            BY <3>1, <3>3, Zenon
    <2>2. \A i, j \in 1..Len(entries') : entries'[i].own /\ entries'[j].own /\ i # j =>
              entries'[i].pool # entries'[j].pool /\ entries'[i].scope # entries'[j].scope
        BY <1>3, <1>5 DEF DbInv, Joined
    <2>3. QED
        BY <2>1, <2>2, Zenon DEF Joined
<1>7. s \in 1..scopes /\ answered[s] = "running" /\ entries[k].writes = {w \in written : w.scope = s}
    BY Zenon DEF DbInv, Holds
<1>8. Holds'
    <2>1. ASSUME NEW i \in 1..Len(entries), i # k
          PROVE  IF entries[i].own
                 THEN /\ entries[i].scope \in 1..scopes /\ answered[entries[i].scope] = "running"
                      /\ entries[i].writes = {w \in written' : w.scope = entries[i].scope}
                 ELSE entries[i].writes = {}
        <3>1. entries[i].own => entries[i].scope # s
            BY <2>1, Zenon DEF DbInv, Joined
        <3>2. entries[i].own => {w \in written' : w.scope = entries[i].scope} = {w \in written : w.scope = entries[i].scope}
            BY <3>1, Zenon
        <3>3. QED
            BY <3>2, Zenon DEF DbInv, Holds
    <2>2. e.writes = {w \in written' : w.scope = s}
        BY <1>1, <1>7, Zenon
    <2>3. \A i \in 1..Len(entries') :
            IF entries'[i].own
            THEN /\ entries'[i].scope \in 1..scopes' /\ answered'[entries'[i].scope] = "running"
                 /\ entries'[i].writes = {w \in written' : w.scope = entries'[i].scope}
            ELSE entries'[i].writes = {}
        BY <1>1, <1>3, <1>7, <2>1, <2>2
    <2>4. \A x \in 1..scopes' : answered'[x] = "running" => \E i \in 1..Len(entries') : entries'[i].own /\ entries'[i].scope = x
        BY <1>3, <1>5 DEF DbInv, Holds
    <2>5. \A w \in written' : w.scope \in 0..scopes'
        BY <1>0, <1>7 DEF DbInv, Holds
    <2>6. QED
        BY <2>3, <2>4, <2>5, Zenon DEF Holds
<1>9. TransactionsWhole'
    <2>1. row \notin durable
        <3>1. row \in durable => row \in written
            BY Zenon DEF DbInv, DbType
        <3>2. QED
            BY <1>0, <1>7, <3>1 DEF DbInv, TransactionsWhole
    <2>2. \A w \in written' : w.scope = s => w \notin durable
        BY <1>0, <1>7, <2>1 DEF DbInv, TransactionsWhole
    <2>3. QED
        BY <1>7, <2>1, <2>2, Zenon DEF DbInv, TransactionsWhole
<1>10. QED
    BY <1>4, <1>6, <1>8, <1>9, RegistryStays, Zenon DEF DbInv

LEMMA DBKeeps == ASSUME DbInv, NEW pool \in Nat, DB(pool) \/ PlainDB(pool) PROVE DbInv'
<1>1. CASE DB(pool)
    <2>1. /\ written' = written \cup {Row(pool)}
          /\ IF TxFor(pool) = {}
             THEN durable' = durable \cup {Row(pool)} /\ UNCHANGED entries
             ELSE /\ entries' = [i \in DOMAIN entries |->
                                   IF i \in TxFor(pool) THEN [entries[i] EXCEPT !.writes = @ \cup {Row(pool)}] ELSE entries[i]]
                  /\ UNCHANGED durable
        BY <1>1, Zenon DEF DB
    <2>2. pool \in Nat /\ UNCHANGED <<scopes, answered, registryVars>>
        BY <1>1, Zenon DEF DB
    <2>3. CASE TxFor(pool) = {} /\ ScopeOf(pool) = 0
        <3>1. Row(pool) \in Rows /\ Row(pool).scope = 0
            BY <2>2, <2>3, FreshRow
        <3>2. QED
            BY <2>1, <2>2, <2>3, <3>1, RowKeeps, Zenon
    <2>4. ASSUME NEW k \in 1..Len(entries), entries[k].own, TxFor(pool) = {k}, ScopeOf(pool) = entries[k].scope PROVE DbInv'
        <3>0. entries[k] \in Calls
            BY DEF DbInv, DbType
        <3>1. entries[k].scope \in Nat
            BY <3>0, Zenon DEF Calls
        <3>2. Row(pool) \in Rows /\ Row(pool).scope = entries[k].scope
            BY <2>2, <2>4, <3>1, FreshRow, Zenon
        <3>3. PICK row \in Rows : row = Row(pool)
            BY <3>2, Zenon
        <3>4. \A i : i \in TxFor(pool) <=> i = k
            BY <2>4, Zenon
        <3>5. entries' = [i \in DOMAIN entries |-> IF i \in TxFor(pool) THEN [entries[i] EXCEPT !.writes = @ \cup {row}] ELSE entries[i]]
            BY <2>1, <3>3, <3>4, Zenon
        <3>6. entries' = [i \in DOMAIN entries |-> IF i = k THEN [entries[i] EXCEPT !.writes = @ \cup {row}] ELSE entries[i]]
            BY <3>4, <3>5, Zenon
        <3>7. written' = written \cup {row} /\ durable' = durable
            BY <2>1, <2>4, <3>3, Zenon
        <3>8. QED
            BY <2>2, <2>4, <3>2, <3>3, <3>6, <3>7, WriteKeeps, Zenon
    <2>5. QED
        BY <2>2, <2>3, <2>4, OneOwner, Zenon
<1>2. CASE PlainDB(pool)
    <2>1. /\ written' = written \cup {[Row(pool) EXCEPT !.scope = 0]}
          /\ durable' = durable \cup {[Row(pool) EXCEPT !.scope = 0]}
        BY <1>2, Zenon DEF PlainDB
    <2>2. pool \in Nat /\ UNCHANGED <<entries, scopes, answered, registryVars>>
        BY <1>2, Zenon DEF PlainDB
    <2>3. Cardinality(written) + 1 \in Nat
        BY FS_CardinalityType DEF DbInv, DbType
    <2>4. PICK row \in Rows : row = [Row(pool) EXCEPT !.scope = 0] /\ row.scope = 0
        <3>1. [Row(pool) EXCEPT !.scope = 0] = [pool |-> pool, scope |-> 0, n |-> Cardinality(written) + 1]
            BY DEF Row
        <3>2. QED
            BY <2>2, <2>3, <3>1, Zenon DEF Rows
    <2>5. QED
        BY <2>1, <2>2, <2>4, RowKeeps, Zenon
<1>3. QED
    BY <1>1, <1>2, Zenon

LEMMA DbInvStep == DbInv /\ [DbNext]_dbVars => DbInv'
<1> SUFFICES ASSUME DbInv, [DbNext]_dbVars PROVE DbInv'
    BY Zenon
<1>1. \A pool \in 1..MaxPools : pool \in Nat
    BY DatabaseAccessAssumption
<1>2. ASSUME AuditWrite PROVE DbInv'
    <2>1. PICK pool \in Get(AuditName) : DB(pool)
        BY <1>2, Zenon DEF AuditWrite
    <2>2. pool \in Nat
        BY DatabaseAccessAssumption, Zenon DEF DbInv, RegistryInv, Get
    <2>3. QED
        BY <2>1, <2>2, DBKeeps, Zenon
<1>3. QED
    BY <1>1, <1>2, RegistrySteps, WithinKeeps, DBKeeps, ReturnKeeps, PanicKeeps, Zenon DEF DbNext

\* However calls nest and join, whatever names stand for one pool, while
\* connections are renamed and closed, and wherever a commit fails, an error
\* is swallowed or fn panics, what one outermost transaction writes on a
\* connection is kept whole or not at all, as it answered (GormTransactor.
\* WithinTransaction, BaseRepository.DB, Registry.AddConnection, CloseAll).
THEOREM TransactionsAreWhole == DbSpec => []TransactionsWhole
<1>1. DbInit => DbInv
    BY DbInvInit, Zenon
<1>2. DbInv /\ [DbNext]_dbVars => DbInv'
    BY DbInvStep, Zenon
<1>3. DbInv => TransactionsWhole
    BY Zenon DEF DbInv
<1>4. QED
    BY <1>1, <1>2, <1>3, PTL DEF DbSpec
=============================================================================
