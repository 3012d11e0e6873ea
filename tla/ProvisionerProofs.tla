-------------------------- MODULE ProvisionerProofs --------------------------
(***************************************************************************)
(* Tenants' resources stay apart, for any number of tenants and processes, *)
(* in every runtime and under every fault.  An id is claimed by a tenant   *)
(* when a resource, a record, a call or the file that a call has read      *)
(* names it for that tenant; no id is ever claimed by two.  With one call  *)
(* at a time the books are straight as well: what exists is recorded, in   *)
(* hand or given up, what a running task is made of outlives it, and the   *)
(* address that a host leads to is its own tenant's.                       *)
(***************************************************************************)
EXTENDS Provisioner, SequenceTheorems, TLAPS

WideRefs   == [Kinds -> Nat]
WideRecord == [refs : WideRefs, running : BOOLEAN]
WideResource == [kind : Kinds, id : Nat \ {0}, tenant : Tenants, refs : WideRefs]

\* A call has all its fields.
Full(c) ==
    c = [op |-> c.op, tenant |-> c.tenant, phase |-> c.phase, at |-> c.at, refs |-> c.refs,
         old |-> c.old, undo |-> c.undo, data |-> c.data, running |-> c.running,
         seen |-> c.seen]

\* The undo stack matters to nothing here.
CallOK(c) ==
    /\ Full(c)
    /\ c.tenant \in Tenants /\ c.at \in Nat \ {0}
    /\ c.refs \in WideRefs /\ c.old \in WideRefs /\ c.running \in BOOLEAN
    /\ c.seen \in [Tenants -> WideRecord \cup {None}]

Types ==
    /\ mode \in {"alb", "public", "local"}
    /\ cloud \subseteq WideResource /\ born \in Nat
    /\ store \in [Tenants -> WideRecord \cup {None}]
    /\ call = [p \in Procs |-> call[p]]
    /\ \A p \in Procs : CallOK(call[p])

Claim(i, t) ==
    \/ \E r \in cloud : r.tenant = t /\ (r.id = i \/ \E k \in Kinds : r.refs[k] = i)
    \/ store[t] # None /\ \E k \in Kinds : store[t].refs[k] = i
    \/ \E p \in Procs : /\ call[p].tenant = t
                        /\ \E k \in Kinds : call[p].refs[k] = i \/ call[p].old[k] = i
    \/ \E p \in Procs : /\ call[p].seen[t] # None
                        /\ \E k \in Kinds : call[p].seen[t].refs[k] = i

Claimed == \A i \in Nat \ {0} : \A t \in Tenants : Claim(i, t) => i <= born

Separate == \A i \in Nat \ {0} : \A t, u \in Tenants : Claim(i, t) /\ Claim(i, u) => t = u

IInv == Types /\ Claimed /\ Separate

\* What a step may give a tenant: nothing, what is his, or the new id n.
Mine(i, t, n) == i = 0 \/ Claim(i, t) \/ i = n

MineAll(refs, t, n) == \A k \in Kinds : Mine(refs[k], t, n)

-----------------------------------------------------------------------------
\* Everything that names an id for a tenant is a claim of his.
LEMMA Claims ==
    ASSUME IInv, NEW n
    PROVE  /\ \A r \in cloud : Mine(r.id, r.tenant, n) /\ MineAll(r.refs, r.tenant, n)
           /\ \A t \in Tenants : store[t] # None => MineAll(store[t].refs, t, n)
           /\ \A p \in Procs : /\ MineAll(call[p].refs, call[p].tenant, n)
                               /\ MineAll(call[p].old, call[p].tenant, n)
           /\ \A p \in Procs, t \in Tenants :
                 call[p].seen[t] # None => MineAll(call[p].seen[t].refs, t, n)
  BY DEF Mine, MineAll, Claim

\* No id is claimed anew but the one that the step gives out.
LEMMA KeptApart ==
    ASSUME IInv, Types', NEW T \in Tenants, NEW n \in {0, born + 1},
           born' = IF n = 0 THEN born ELSE n,
           \A i \in Nat \ {0} : \A t \in Tenants :
              Claim(i, t)' => Claim(i, t) \/ (i = n /\ t = T)
    PROVE  IInv'
<1>1. born \in Nat /\ born' \in Nat /\ born <= born' /\ (n # 0 => n = born + 1 /\ born' = n)
  BY DEF IInv, Types
<1>2. \A t \in Tenants : n # 0 => ~Claim(n, t)
  BY <1>1 DEF IInv, Claimed
<1>3. Claimed'
  <2>1. ASSUME NEW i \in Nat \ {0}, NEW t \in Tenants, Claim(i, t)' PROVE i <= born'
    <3>1. CASE Claim(i, t)
      BY <1>1, <3>1 DEF IInv, Claimed
    <3>2. CASE i = n
      BY <1>1, <3>2
    <3>. QED  BY <2>1, <3>1, <3>2
  <2>. QED  BY <2>1 DEF Claimed
<1>4. Separate'
  <2>1. ASSUME NEW i \in Nat \ {0}, NEW t \in Tenants, NEW u \in Tenants,
               Claim(i, t)', Claim(i, u)'
        PROVE  t = u
    <3>1. CASE i = n
      BY <1>2, <2>1, <3>1
    <3>2. CASE i # n
      <4>1. Claim(i, t) /\ Claim(i, u)
        BY <2>1, <3>2
      <4>. QED  BY <4>1 DEF IInv, Separate
    <3>. QED  BY <3>1, <3>2
  <2>. QED  BY <2>1 DEF Separate
<1>. QED  BY <1>3, <1>4 DEF IInv

\* A step of one call keeps the tenants apart when the call, and what it
\* makes and stores, name only what is its tenant's or new.
LEMMA OneCall ==
    ASSUME IInv, NEW p \in Procs, NEW c, NEW n \in {0, born + 1},
           CallOK(c),
           MineAll(c.refs, c.tenant, n), MineAll(c.old, c.tenant, n),
           \A t \in Tenants : c.seen[t] # None => MineAll(c.seen[t].refs, t, 0),
           call' = [call EXCEPT ![p] = c], UNCHANGED mode,
           born' = IF n = 0 THEN born ELSE n,
           \A r \in cloud' : \/ r \in cloud
                             \/ /\ r \in WideResource /\ r.id = n /\ r.tenant = c.tenant
                                /\ MineAll(r.refs, c.tenant, 0),
           store' \in [Tenants -> WideRecord \cup {None}],
           \A t \in Tenants : store'[t] # None => MineAll(store'[t].refs, t, 0)
    PROVE  IInv'
<1>1. \A q \in Procs : call'[q] = IF q = p THEN c ELSE call[q]
  BY DEF IInv, Types
<1>2. Types'
  <2>1. cloud' \subseteq WideResource /\ born' \in Nat
    BY DEF IInv, Types
  <2>2. call' = [q \in Procs |-> call'[q]]
    BY DEF IInv, Types
  <2>3. \A q \in Procs : CallOK(call'[q])
    BY <1>1 DEF IInv, Types
  <2>. QED  BY <2>1, <2>2, <2>3 DEF IInv, Types
<1>3. ASSUME NEW i \in Nat \ {0}, NEW t \in Tenants, Claim(i, t)'
      PROVE  Claim(i, t) \/ (i = n /\ t = c.tenant)
  <2>1. CASE \E r \in cloud' : r.tenant = t /\ (r.id = i \/ \E k \in Kinds : r.refs[k] = i)
    <3>1. PICK r \in cloud' : r.tenant = t /\ (r.id = i \/ \E k \in Kinds : r.refs[k] = i)
      BY <2>1
    <3>2. CASE r \in cloud
      BY <3>1, <3>2 DEF Claim
    <3>3. CASE r \notin cloud
      BY <3>1, <3>3 DEF MineAll, Mine
    <3>. QED  BY <3>2, <3>3
  <2>2. CASE store'[t] # None /\ \E k \in Kinds : store'[t].refs[k] = i
    BY <2>2 DEF MineAll, Mine
  <2>3. CASE \E q \in Procs : /\ call'[q].tenant = t
                              /\ \E k \in Kinds : call'[q].refs[k] = i \/ call'[q].old[k] = i
    <3>1. PICK q \in Procs : /\ call'[q].tenant = t
                             /\ \E k \in Kinds : call'[q].refs[k] = i \/ call'[q].old[k] = i
      BY <2>3
    <3>2. CASE q = p
      BY <1>1, <3>1, <3>2 DEF MineAll, Mine
    <3>3. CASE q # p
      BY <1>1, <3>1, <3>3 DEF Claim
    <3>. QED  BY <3>2, <3>3
  <2>4. CASE \E q \in Procs : /\ call'[q].seen[t] # None
                              /\ \E k \in Kinds : call'[q].seen[t].refs[k] = i
    <3>1. PICK q \in Procs : /\ call'[q].seen[t] # None
                             /\ \E k \in Kinds : call'[q].seen[t].refs[k] = i
      BY <2>4
    <3>2. CASE q = p
      BY <1>1, <3>1, <3>2 DEF MineAll, Mine
    <3>3. CASE q # p
      BY <1>1, <3>1, <3>3 DEF Claim
    <3>. QED  BY <3>2, <3>3
  <2>. QED  BY <1>3, <2>1, <2>2, <2>3, <2>4 DEF Claim
<1>4. c.tenant \in Tenants
  BY DEF CallOK
<1>. QED  BY <1>2, <1>3, <1>4, KeptApart

\* A call that changes its place only: what it holds stays, nothing is made.
LEMMA MovesOn ==
    ASSUME IInv, NEW p \in Procs, NEW c, Full(c), c.op = call[p].op,
           c.tenant = call[p].tenant, c.refs = call[p].refs, c.old = call[p].old,
           c.seen = call[p].seen, c.at \in Nat \ {0}, c.running \in BOOLEAN,
           Set(p, c), UNCHANGED <<born, store>>, cloud' \subseteq cloud
    PROVE  IInv'
<1>1. CallOK(call[p])
  BY DEF IInv, Types
<1>2. CallOK(c)
  BY <1>1 DEF CallOK
<1>3. /\ MineAll(c.refs, c.tenant, 0) /\ MineAll(c.old, c.tenant, 0)
      /\ \A t \in Tenants : c.seen[t] # None => MineAll(c.seen[t].refs, t, 0)
      /\ \A t \in Tenants : store[t] # None => MineAll(store[t].refs, t, 0)
  BY Claims
<1>4. store \in [Tenants -> WideRecord \cup {None}]
  BY DEF IInv, Types
<1>5. call' = [call EXCEPT ![p] = c] /\ UNCHANGED mode
  BY DEF Set, settings
<1>. QED  BY <1>2, <1>3, <1>4, <1>5, OneCall

\* A call that ends, whatever of his own it stored for each tenant.
LEMMA Ends ==
    ASSUME IInv, NEW p \in Procs, Quit(p), UNCHANGED born,
           store' \in [Tenants -> WideRecord \cup {None}],
           \A t \in Tenants : store'[t] # None => MineAll(store'[t].refs, t, 0),
           cloud' \subseteq cloud
    PROVE  IInv'
<1>. DEFINE c == NoCall(call[p].tenant)
<1>1. call[p].tenant \in Tenants
  BY DEF IInv, Types, CallOK
<1>2. /\ c.tenant = call[p].tenant /\ c.refs = NoRef /\ c.old = NoRef
      /\ \A t \in Tenants : c.seen[t] = None
  BY DEF NoCall
<1>3. CallOK(c)
  BY <1>1 DEF CallOK, Full, NoCall, NoRef, WideRefs
<1>4. MineAll(c.refs, c.tenant, 0) /\ MineAll(c.old, c.tenant, 0)
  BY <1>2 DEF MineAll, Mine, NoRef
<1>5. call' = [call EXCEPT ![p] = c] /\ UNCHANGED mode
  BY DEF Quit, Set, settings
<1>. HIDE DEF c
<1>. QED  BY <1>2, <1>3, <1>4, <1>5, OneCall

\* A call that ends without a word.
LEMMA EndsUnstored ==
    ASSUME IInv, NEW p \in Procs, Quit(p), UNCHANGED <<cloud, born, store>>
    PROVE  IInv'
<1>1. /\ \A t \in Tenants : store[t] # None => MineAll(store[t].refs, t, 0)
      /\ store \in [Tenants -> WideRecord \cup {None}]
  BY Claims DEF IInv, Types
<1>. QED  BY <1>1, Ends

-----------------------------------------------------------------------------
(* The calls begin. *)

\* A call as it begins: nothing done yet, no file read.
Fresh(c) ==
    /\ Full(c)
    /\ c.phase = "work" /\ c.at = 1 /\ c.running \in BOOLEAN
    /\ c.seen \in [Tenants -> {None}]

\* A process at rest holds nothing.
LEMMA NoCallIsFresh ==
    ASSUME NEW t \in Tenants
    PROVE  Fresh(NoCall(t)) /\ NoCall(t).refs = NoRef /\ NoCall(t).old = NoRef
<1>. DEFINE noFile == [x \in Tenants |-> None]
            b == NoCall(t)
<1>1. b = [op |-> "idle", tenant |-> t, phase |-> "work", at |-> 1, refs |-> NoRef,
           old |-> NoRef, undo |-> <<>>, data |-> FALSE, running |-> FALSE, seen |-> noFile]
  BY DEF NoCall
<1>2. noFile \in [Tenants -> {None}]
  OBVIOUS
<1>. HIDE DEF b, noFile
<1>3. Fresh(b) /\ b.refs = NoRef /\ b.old = NoRef
  BY <1>1, <1>2 DEF Fresh, Full
<1>. QED  BY <1>3 DEF b

\* A call begins with what is its tenant's.
LEMMA Begins ==
    ASSUME IInv, NEW p \in Procs, NEW t \in Tenants, NEW op, NEW e,
           Fresh(e), e.refs \in WideRefs, e.old \in WideRefs,
           MineAll(e.refs, t, 0), MineAll(e.old, t, 0),
           Begin(p, op, t, e)
    PROVE  IInv'
<1>1. PICK c : c = [e EXCEPT !.op = op, !.tenant = t]
  OBVIOUS
<1>2. call' = [call EXCEPT ![p] = c] /\ UNCHANGED <<mode, cloud, targets, born, store>>
  BY <1>1 DEF Begin, Set, settings, world
<1>3. /\ Full(c) /\ c.op = op /\ c.tenant = t /\ c.refs = e.refs /\ c.old = e.old
      /\ c.seen = e.seen /\ c.at = 1 /\ c.running \in BOOLEAN
  BY <1>1 DEF Fresh, Full
<1>4. c.seen \in [Tenants -> WideRecord \cup {None}] /\ \A u \in Tenants : c.seen[u] = None
  BY <1>3 DEF Fresh
<1>5. CallOK(c)
  BY <1>3, <1>4 DEF CallOK
<1>6. /\ \A u \in Tenants : store[u] # None => MineAll(store[u].refs, u, 0)
      /\ store \in [Tenants -> WideRecord \cup {None}]
  BY Claims DEF IInv, Types
<1>. QED  BY <1>2, <1>3, <1>4, <1>5, <1>6, OneCall

\* Each of the calls: provision,
LEMMA ProvisionInv ==
    ASSUME IInv, NEW p \in Procs, NEW t \in Tenants, Provision(p, t)
    PROVE  IInv'
<1>1. NoRef \in WideRefs /\ MineAll(NoRef, t, 0)
  BY DEF NoRef, WideRefs, MineAll, Mine
<1>. QED  BY <1>1, NoCallIsFresh, Begins DEF Provision

\* teardown and control, which read the record,
LEMMA ReadInv ==
    ASSUME IInv, NEW p \in Procs, NEW t \in Tenants, NEW op \in {"teardown", "control"},
           NEW d, Read(p, op, t, d)
    PROVE  IInv'
<1>. DEFINE rec == store[t]
<1>1. PICK b : b = NoCall(t)
  OBVIOUS
<1>2. PICK e : e = [b EXCEPT !.refs = rec.refs, !.old = rec.refs,
                             !.running = rec.running, !.data = d]
  OBVIOUS
<1>3. rec \in WideRecord /\ MineAll(rec.refs, t, 0)
  BY Claims DEF Read, IInv, Types
<1>4. rec.refs \in WideRefs /\ rec.running \in BOOLEAN
  BY <1>3 DEF WideRecord
<1>5. Begin(p, op, t, e)
  BY <1>1, <1>2 DEF Read
<1>6. Fresh(b)
  BY <1>1, NoCallIsFresh
<1>7. Fresh(e) /\ e.refs = rec.refs /\ e.old = rec.refs
  BY <1>2, <1>4, <1>6 DEF Fresh, Full
<1>. QED  BY <1>3, <1>4, <1>5, <1>7, Begins

\* and the update, which reads the running task.
LEMMA UpdateInv ==
    ASSUME IInv, NEW p \in Procs, NEW t \in Tenants, Update(p, t)
    PROVE  IInv'
<1>. DEFINE Found(r) == [r.refs EXCEPT !["task"] = r.id]
<1>1. PICK b : b = NoCall(t)
  OBVIOUS
<1>2. PICK r \in Up(t) : Begin(p, "update", t, [b EXCEPT !.old = Found(r), !.refs = Found(r)])
  BY <1>1 DEF Update
<1>3. PICK e : e = [b EXCEPT !.old = Found(r), !.refs = Found(r)]
  OBVIOUS
<1>4. r \in cloud /\ r.tenant = t
  BY DEF Up, Of
<1>5. r \in WideResource /\ Mine(r.id, t, 0) /\ MineAll(r.refs, t, 0)
  BY <1>4, Claims DEF IInv, Types
<1>6. Found(r) \in WideRefs /\ MineAll(Found(r), t, 0)
  BY <1>5 DEF WideResource, WideRefs, MineAll
<1>7. Fresh(b)
  BY <1>1, NoCallIsFresh
<1>8. Fresh(e) /\ e.refs = Found(r) /\ e.old = Found(r)
  BY <1>3, <1>7 DEF Fresh, Full
<1>. HIDE DEF Found
<1>9. Begin(p, "update", t, e)
  BY <1>2, <1>3
<1>. QED  BY <1>6, <1>8, <1>9, Begins

\* Whatever call begins.
LEMMA BeginCallInv ==
    ASSUME IInv, NEW p \in Procs, BeginCall(p)
    PROVE  IInv'
  BY ProvisionInv, ReadInv, UpdateInv DEF BeginCall

-----------------------------------------------------------------------------
(* provisionAgent. *)

\* What every call is.
LEMMA CallIs ==
    ASSUME IInv, NEW p \in Procs
    PROVE  /\ CallOK(call[p]) /\ Full(call[p])
           /\ call[p].tenant \in Tenants /\ call[p].at \in Nat \ {0}
           /\ call[p].running \in BOOLEAN
  BY DEF IInv, Types, CallOK

\* The polls of a provision.
LEMMA WaitedInv ==
    ASSUME IInv, NEW p \in Procs, NEW step \in {"healthy", "ip", "targetHealthy"},
           Waited(p, step)
    PROVE  IInv'
<1>1. PICK c : c = Next1(p)
  OBVIOUS
<1>. Full(call[p])
  BY CallIs
<1>2. Set(p, c) /\ UNCHANGED <<cloud, born, store>>
  BY <1>1 DEF Waited
<1>3. /\ Full(c) /\ c.op = call[p].op /\ c.tenant = call[p].tenant /\ c.refs = call[p].refs
      /\ c.old = call[p].old /\ c.seen = call[p].seen /\ c.at = call[p].at + 1
      /\ c.running = call[p].running
  BY <1>1 DEF Next1, Full
<1>. QED  BY <1>2, <1>3, CallIs, MovesOn

\* A call that leaves its work with a new phase.
LEMMA Leaves ==
    ASSUME IInv, NEW p \in Procs, NEW phase \in {"undo", "load"},
           Set(p, [call[p] EXCEPT !.phase = phase]),
           UNCHANGED <<cloud, targets, born, store>>
    PROVE  IInv'
<1>1. PICK c : c = [call[p] EXCEPT !.phase = phase]
  OBVIOUS
<1>. Full(call[p])
  BY CallIs
<1>2. /\ Full(c) /\ c.op = call[p].op /\ c.tenant = call[p].tenant /\ c.refs = call[p].refs
      /\ c.old = call[p].old /\ c.seen = call[p].seen /\ c.at = call[p].at
      /\ c.running = call[p].running /\ c.phase # "work"
  BY <1>1 DEF Full
<1>. QED  BY <1>1, <1>2, CallIs, MovesOn

\* A step of provisionAgent throws.
LEMMA ThrowsInv ==
    ASSUME IInv, NEW p \in Procs, Throws(p)
    PROVE  IInv'
  BY Leaves DEF Throws, world

\* provisionAgent returns its record.
LEMMA ProvisionedInv ==
    ASSUME IInv, NEW p \in Procs, Provisioned(p)
    PROVE  IInv'
<1>1. PICK c : c = [call[p] EXCEPT !.phase = "load", !.running = TRUE]
  OBVIOUS
<1>. Full(call[p])
  BY CallIs
<1>2. /\ Full(c) /\ c.op = call[p].op /\ c.tenant = call[p].tenant /\ c.refs = call[p].refs
      /\ c.old = call[p].old /\ c.seen = call[p].seen /\ c.at = call[p].at
      /\ c.running = TRUE /\ c.phase # "work"
  BY <1>1 DEF Full
<1>3. Set(p, c) /\ UNCHANGED <<cloud, targets, born, store>>
  BY <1>1 DEF Provisioned, world
<1>. QED  BY <1>2, <1>3, CallIs, MovesOn

\* Whatever is removed, in whatever order, nothing is added.
LEMMA Removes ==
    ASSUME NEW k, NEW c, NEW a, Removal(k, c, a)
    PROVE  cloud' \subseteq cloud /\ targets' \subseteq targets
  BY DEF Removal, Unmake

\* The rollback removes, or gives up.
LEMMA UndoInv ==
    ASSUME IInv, NEW p \in Procs, Undo(p) \/ UndoFails(p)
    PROVE  IInv'
<1>1. PICK undo : Set(p, [call[p] EXCEPT !.undo = undo])
  BY DEF Undo, UndoFails
<1>2. PICK c : c = [call[p] EXCEPT !.undo = undo]
  OBVIOUS
<1>. Full(call[p])
  BY CallIs
<1>3. call[p].phase = "undo" /\ UNCHANGED <<born, store>>
  BY DEF Undo, UndoFails, Undoing, Goes
<1>4. cloud' \subseteq cloud /\ targets' \subseteq targets
  BY Removes DEF Undo, UndoFails
<1>5. /\ Full(c) /\ c.op = call[p].op /\ c.tenant = call[p].tenant /\ c.refs = call[p].refs
      /\ c.old = call[p].old /\ c.seen = call[p].seen /\ c.at = call[p].at
      /\ c.running = call[p].running /\ c.phase # "work"
  BY <1>2, <1>3 DEF Full
<1>. QED  BY <1>1, <1>2, <1>3, <1>4, <1>5, CallIs, MovesOn

\* A call that makes one resource out of what its tenant has.
LEMMA Makes ==
    ASSUME IInv, NEW p \in Procs, NEW c, Full(c), c.at \in Nat \ {0}, c.running \in BOOLEAN,
           c.tenant = call[p].tenant, c.old = call[p].old, c.seen = call[p].seen,
           c.refs \in WideRefs, MineAll(c.refs, c.tenant, born + 1),
           NEW k \in Kinds, NEW refs \in WideRefs, MineAll(refs, c.tenant, 0),
           Make(k, c.tenant, refs),
           Set(p, c), UNCHANGED <<targets, store>>
    PROVE  IInv'
<1>. DEFINE new == [kind |-> k, id |-> born + 1, tenant |-> c.tenant, refs |-> refs]
<1>1. CallOK(call[p]) /\ born \in Nat /\ call[p].tenant \in Tenants
  BY DEF IInv, Types, CallOK
<1>2. CallOK(c)
  BY <1>1 DEF CallOK
<1>3. new \in WideResource /\ new.id = born + 1 /\ new.tenant = c.tenant /\ new.refs = refs
  BY <1>1 DEF WideResource
<1>4. born' = born + 1 /\ cloud' \subseteq cloud \cup {new}
  BY DEF Make
<1>. HIDE DEF new
<1>5. \A r \in cloud' : \/ r \in cloud
                         \/ /\ r \in WideResource /\ r.id = born + 1 /\ r.tenant = c.tenant
                            /\ MineAll(r.refs, c.tenant, 0)
  BY <1>3, <1>4
<1>6. /\ MineAll(c.old, c.tenant, born + 1)
      /\ \A t \in Tenants : c.seen[t] # None => MineAll(c.seen[t].refs, t, 0)
      /\ \A t \in Tenants : store[t] # None => MineAll(store[t].refs, t, 0)
  BY Claims
<1>7. store \in [Tenants -> WideRecord \cup {None}]
  BY DEF IInv, Types
<1>8. call' = [call EXCEPT ![p] = c] /\ UNCHANGED mode
  BY DEF Set, settings
<1>9. /\ born + 1 \in {0, born + 1} /\ born + 1 # 0
      /\ born' = IF born + 1 = 0 THEN born ELSE born + 1
  BY <1>1, <1>4
<1>. QED  BY <1>2, <1>5, <1>6, <1>7, <1>8, <1>9, OneCall

\* What a call holds is a set of references of its own tenant.
LEMMA HoldsMine ==
    ASSUME IInv, NEW p \in Procs, NEW n
    PROVE  /\ call[p].refs \in WideRefs /\ MineAll(call[p].refs, call[p].tenant, n)
           /\ call[p].old \in WideRefs /\ MineAll(call[p].old, call[p].tenant, n)
  BY Claims DEF IInv, Types, CallOK

\* A resource that a failing step leaves behind: a group without its rules, a
\* container that was never started.
LEMMA LeftBehind ==
    ASSUME IInv, NEW p \in Procs, NEW k \in Kinds,
           Make(k, call[p].tenant, call[p].refs),
           Set(p, [call[p] EXCEPT !.phase = "undo"]), UNCHANGED <<targets, store>>
    PROVE  IInv'
<1>1. PICK c : c = [call[p] EXCEPT !.phase = "undo"]
  OBVIOUS
<1>. Full(call[p])
  BY CallIs
<1>2. /\ Full(c) /\ c.tenant = call[p].tenant /\ c.refs = call[p].refs /\ c.old = call[p].old
      /\ c.seen = call[p].seen /\ c.at = call[p].at /\ c.running = call[p].running
      /\ c.phase = "undo"
  BY <1>1 DEF Full
<1>3. c.refs \in WideRefs /\ MineAll(c.refs, c.tenant, born + 1) /\ MineAll(c.refs, c.tenant, 0)
  BY <1>2, HoldsMine
<1>4. Set(p, c) /\ Make(k, c.tenant, c.refs)
  BY <1>1, <1>2
<1>. QED  BY <1>2, <1>3, <1>4, CallIs, Makes

\* The two steps that make something and then throw.
LEMMA HalfMadeInv ==
    ASSUME IInv, NEW p \in Procs, SgRulesFail(p) \/ DockerRunFails(p)
    PROVE  IInv'
<1>1. CASE SgRulesFail(p)
  BY <1>1, LeftBehind DEF SgRulesFail, Kinds
<1>2. CASE DockerRunFails(p)
  BY <1>2, LeftBehind DEF DockerRunFails, Kinds
<1>. QED  BY <1>1, <1>2

-----------------------------------------------------------------------------
(* teardownAgent and controlAgent. *)

\* A teardown deletes, or skips.
LEMMA DeleteInv ==
    ASSUME IInv, NEW p \in Procs, Delete(p)
    PROVE  IInv'
<1>1. PICK c : c = Next1(p)
  OBVIOUS
<1>. Full(call[p])
  BY CallIs
<1>2. /\ Full(c) /\ c.op = call[p].op /\ c.tenant = call[p].tenant /\ c.refs = call[p].refs
      /\ c.old = call[p].old /\ c.seen = call[p].seen /\ c.at = call[p].at + 1
      /\ c.running = call[p].running
  BY <1>1 DEF Next1, Full
<1>3. Set(p, c) /\ call[p].op # "provision" /\ UNCHANGED <<born, store>>
  BY <1>1 DEF Delete, TearingDown, Goes
<1>4. cloud' \subseteq cloud /\ targets' \subseteq targets
  BY Removes DEF Delete
<1>. QED  BY <1>2, <1>3, <1>4, CallIs, MovesOn

\* teardownAgent returns.
LEMMA TornDownInv ==
    ASSUME IInv, NEW p \in Procs, TornDown(p)
    PROVE  IInv'
  BY Leaves DEF TornDown, world

\* docker start, stop and restart.
LEMMA DockerControlsInv ==
    ASSUME IInv, NEW p \in Procs, NEW v, DockerControls(p, v)
    PROVE  IInv'
<1>1. CASE Quit(p)
  BY <1>1, EndsUnstored DEF DockerControls
<1>2. CASE \E running \in BOOLEAN :
              Set(p, [call[p] EXCEPT !.phase = "load", !.running = running])
  <2>1. PICK running \in BOOLEAN : Set(p, [call[p] EXCEPT !.phase = "load", !.running = running])
    BY <1>2
  <2>2. PICK c : c = [call[p] EXCEPT !.phase = "load", !.running = running]
    OBVIOUS
  <2>. Full(call[p])
    BY CallIs
  <2>3. /\ Full(c) /\ c.op = call[p].op /\ c.tenant = call[p].tenant /\ c.refs = call[p].refs
        /\ c.old = call[p].old /\ c.seen = call[p].seen /\ c.at = call[p].at
        /\ c.running = running /\ c.phase # "work"
    BY <2>2 DEF Full
  <2>4. Set(p, c) /\ UNCHANGED <<cloud, targets, born, store>>
    BY <2>1, <2>2 DEF DockerControls
  <2>. QED  BY <2>3, <2>4, CallIs, MovesOn
<1>. QED  BY <1>1, <1>2 DEF DockerControls

-----------------------------------------------------------------------------
(* updateAgentVersion, the store, and calls that are given up. *)

\* The calls that end where they are.
LEMMA GivenUpInv ==
    ASSUME IInv, NEW p \in Procs,
           DeleteFails(p) \/ Undone(p) \/ Kill(p) \/ SaveFails(p)
    PROVE  IInv'
  BY EndsUnstored DEF DeleteFails, Undone, Kill, SaveFails, GiveUp, world

\* A step of an update throws.
LEMMA SwapFailsInv ==
    ASSUME IInv, NEW p \in Procs, SwapFails(p)
    PROVE  IInv'
<1>1. CASE Quit(p)
  BY <1>1, EndsUnstored DEF SwapFails
<1>2. CASE Set(p, [Next1(p) EXCEPT !.phase = "load"])
  <2>1. PICK b : b = Next1(p)
    OBVIOUS
  <2>2. PICK c : c = [b EXCEPT !.phase = "load"]
    OBVIOUS
  <2>. Full(call[p])
    BY CallIs
  <2>3. /\ Full(b) /\ b.op = call[p].op /\ b.tenant = call[p].tenant /\ b.refs = call[p].refs
        /\ b.old = call[p].old /\ b.seen = call[p].seen /\ b.at = call[p].at + 1
        /\ b.running = call[p].running
    BY <2>1 DEF Next1, Full
  <2>4. /\ Full(c) /\ c.op = b.op /\ c.tenant = b.tenant /\ c.refs = b.refs
        /\ c.old = b.old /\ c.seen = b.seen /\ c.at = b.at
        /\ c.running = b.running /\ c.phase # "work"
    BY <2>2, <2>3 DEF Full
  <2>5. Set(p, c) /\ UNCHANGED <<cloud, targets, born, store>>
    BY <1>2, <2>1, <2>2 DEF SwapFails
  <2>. QED  BY <2>3, <2>4, <2>5, CallIs, MovesOn
<1>. QED  BY <1>1, <1>2 DEF SwapFails, GiveUp

\* The steps of an update: what it makes is new and its tenant's.
LEMMA SwapInv ==
    ASSUME IInv, NEW p \in Procs, Swap(p)
    PROVE  IInv'
<1>1. PICK b : b = Next1(p)
  OBVIOUS
<1>. Full(call[p])
  BY CallIs
<1>2. /\ Full(b) /\ b.op = "update" /\ b.tenant = call[p].tenant /\ b.refs = call[p].refs
      /\ b.old = call[p].old /\ b.seen = call[p].seen /\ b.at = call[p].at + 1
      /\ b.running = call[p].running /\ call[p].op = "update"
  BY <1>1 DEF Next1, Full, Swap, Updating, Goes
<1>3. /\ UNCHANGED store /\ b.at \in Nat \ {0} /\ b.running \in BOOLEAN
  BY <1>2, CallIs DEF Swap
<1>4. ASSUME NEW k \in {"taskDef", "task"}, NEW refs \in WideRefs,
             MineAll(refs, call[p].tenant, 0), Make(k, call[p].tenant, refs),
             Set(p, [b EXCEPT !.refs[k] = born + 1]), UNCHANGED targets
      PROVE  IInv'
  <2>1. PICK c : c = [b EXCEPT !.refs[k] = born + 1]
    OBVIOUS
  <2>2. /\ Full(c) /\ c.op = b.op /\ c.tenant = b.tenant /\ c.old = b.old /\ c.seen = b.seen
        /\ c.at = b.at /\ c.running = b.running /\ c.refs = [b.refs EXCEPT ![k] = born + 1]
    BY <1>2, <2>1 DEF Full
  <2>3. born \in Nat /\ k \in Kinds
    BY DEF IInv, Types, Kinds
  <2>4. b.refs \in WideRefs /\ MineAll(b.refs, b.tenant, born + 1)
    BY <1>2, HoldsMine
  <2>5. c.refs \in WideRefs /\ MineAll(c.refs, c.tenant, born + 1)
    BY <2>2, <2>3, <2>4 DEF WideRefs, MineAll, Mine
  <2>6. Set(p, c) /\ Make(k, c.tenant, refs) /\ MineAll(refs, c.tenant, 0)
    BY <1>2, <1>4, <2>1, <2>2
  <2>. QED  BY <1>2, <1>3, <1>4, <2>2, <2>3, <2>5, <2>6, Makes
<1>5. CASE /\ Make("taskDef", call[p].tenant, call[p].refs)
           /\ Set(p, [b EXCEPT !.refs["taskDef"] = born + 1]) /\ UNCHANGED targets
  BY <1>4, <1>5, HoldsMine
<1>6. CASE /\ Make("task", call[p].tenant, [call[p].refs EXCEPT !["task"] = 0])
           /\ Set(p, [b EXCEPT !.refs["task"] = born + 1]) /\ UNCHANGED targets
  <2>1. PICK refs : refs = [call[p].refs EXCEPT !["task"] = 0]
    OBVIOUS
  <2>2. call[p].refs \in WideRefs /\ MineAll(call[p].refs, call[p].tenant, 0)
    BY HoldsMine
  <2>3. refs \in WideRefs /\ MineAll(refs, call[p].tenant, 0)
    BY <2>1, <2>2 DEF WideRefs, MineAll, Mine
  <2>. QED  BY <1>4, <1>6, <2>1, <2>3
<1>7. CASE Set(p, b) /\ cloud' \subseteq cloud /\ targets' \subseteq targets /\ UNCHANGED born
  BY <1>2, <1>3, <1>7, MovesOn
<1>8. CASE /\ Set(p, [call[p] EXCEPT !.at = @ + 1, !.phase = "load"])
           /\ cloud' \subseteq cloud /\ targets' \subseteq targets /\ UNCHANGED born
  <2>1. PICK c : c = [call[p] EXCEPT !.at = @ + 1, !.phase = "load"]
    OBVIOUS
  <2>2. /\ Full(c) /\ c.op = call[p].op /\ c.tenant = call[p].tenant /\ c.refs = call[p].refs
        /\ c.old = call[p].old /\ c.seen = call[p].seen /\ c.at = call[p].at + 1
        /\ c.running = call[p].running /\ c.phase # "work"
    BY <2>1 DEF Full
  <2>3. Set(p, c) /\ c.at \in Nat \ {0} /\ c.running \in BOOLEAN
    BY <1>8, <2>1, <2>2, CallIs
  <2>. QED  BY <1>3, <1>8, <2>2, <2>3, MovesOn
<1>9. ASSUME NEW k, NEW i, NEW t, Unmake(k, i, t)
      PROVE  cloud' \subseteq cloud /\ targets' \subseteq targets
  BY <1>9 DEF Unmake
<1>. QED  BY <1>1, <1>5, <1>6, <1>7, <1>8, <1>9 DEF Swap

\* A call reads the store that it will write back.
LEMMA LoadInv ==
    ASSUME IInv, NEW p \in Procs, Load(p)
    PROVE  IInv'
<1>1. PICK c : c = [call[p] EXCEPT !.phase = "save", !.seen = store]
  OBVIOUS
<1>. Full(call[p])
  BY CallIs
<1>2. /\ Full(c) /\ c.tenant = call[p].tenant /\ c.refs = call[p].refs /\ c.old = call[p].old
      /\ c.seen = store /\ c.at = call[p].at /\ c.running = call[p].running
      /\ c.phase = "save"
  BY <1>1 DEF Full
<1>3. store \in [Tenants -> WideRecord \cup {None}]
  BY DEF IInv, Types
<1>4. CallOK(c)
  BY <1>2, <1>3, CallIs, HoldsMine DEF CallOK
<1>5. /\ MineAll(c.refs, c.tenant, 0) /\ MineAll(c.old, c.tenant, 0)
      /\ \A t \in Tenants : store[t] # None => MineAll(store[t].refs, t, 0)
  BY <1>2, Claims
<1>6. call' = [call EXCEPT ![p] = c] /\ UNCHANGED <<mode, cloud, targets, born, store>>
  BY <1>1 DEF Load, Set, settings, world
<1>. QED  BY <1>2, <1>3, <1>4, <1>5, <1>6, OneCall

\* What a call writes is a record of its own tenant's, or none.
LEMMA WritesMine ==
    ASSUME IInv, NEW p \in Procs, NEW c, c = call[p], Writes(c)
    PROVE  /\ ToWrite(c) \in WideRecord \cup {None}
           /\ ToWrite(c) # None => MineAll(ToWrite(c).refs, c.tenant, 0)
<1>1. /\ c.refs \in WideRefs /\ MineAll(c.refs, c.tenant, 0)
      /\ c.running \in BOOLEAN /\ c.tenant \in Tenants
  BY HoldsMine, CallIs
<1>2. CASE ToWrite(c) = None
  BY <1>2
<1>3. CASE c.op = "update" /\ c.seen[c.tenant] # None
  <2>1. PICK seen : seen = c.seen[c.tenant].refs
    OBVIOUS
  <2>2. PICK refs : refs = [seen EXCEPT !["task"] = c.refs["task"], !["taskDef"] = c.refs["taskDef"]]
    OBVIOUS
  <2>3. c.seen[c.tenant] \in WideRecord /\ MineAll(seen, c.tenant, 0)
    BY <1>1, <1>3, <2>1, Claims DEF IInv, Types, CallOK
  <2>4. seen \in WideRefs
    BY <2>1, <2>3 DEF WideRecord
  <2>5. refs \in WideRefs /\ MineAll(refs, c.tenant, 0)
    BY <1>1, <2>2, <2>3, <2>4 DEF WideRefs, MineAll, Kinds
  <2>6. ToWrite(c) = [refs |-> refs, running |-> TRUE]
    BY <1>3, <2>1, <2>2 DEF ToWrite
  <2>. QED  BY <2>5, <2>6 DEF WideRecord
<1>4. CASE c.op \notin {"teardown", "update"}
  <2>1. PICK rec : rec = [refs |-> c.refs, running |-> c.running]
    OBVIOUS
  <2>2. ToWrite(c) = Stored(rec)
    BY <1>4, <2>1 DEF ToWrite
  <2>3. CASE Stored(rec) = rec
    BY <1>1, <2>1, <2>2, <2>3 DEF WideRecord
  <2>4. CASE Stored(rec) = [rec EXCEPT !.refs["taskDef"] = 0, !.refs["tg"] = 0, !.refs["rule"] = 0]
    <3>1. PICK refs : refs = [c.refs EXCEPT !["taskDef"] = 0, !["tg"] = 0, !["rule"] = 0]
      OBVIOUS
    <3>2. refs \in WideRefs /\ MineAll(refs, c.tenant, 0)
      BY <1>1, <3>1 DEF WideRefs, MineAll, Mine, Kinds
    <3>3. Stored(rec) = [refs |-> refs, running |-> c.running]
      BY <1>1, <2>1, <2>4, <3>1
    <3>. QED  BY <1>1, <2>2, <3>2, <3>3 DEF WideRecord
  <2>. QED  BY <2>3, <2>4 DEF Stored
<1>. QED  BY <1>2, <1>3, <1>4 DEF ToWrite, Writes

\* A call writes its tenant's record, and with a file every other one.
LEMMA SaveInv ==
    ASSUME IInv, NEW p \in Procs, Save(p)
    PROVE  IInv'
<1>1. PICK c : c = call[p]
  OBVIOUS
<1>2. CASE ~Writes(c)
  BY <1>1, <1>2, EndsUnstored DEF Save, GiveUp
<1>3. CASE Writes(c)
  <2>1. PICK rec : rec = ToWrite(c)
    OBVIOUS
  <2>2. /\ rec \in WideRecord \cup {None} /\ c.tenant \in Tenants
        /\ rec # None => MineAll(rec.refs, c.tenant, 0)
    BY <1>1, <1>3, <2>1, WritesMine, CallIs
  <2>3. /\ c.seen \in [Tenants -> WideRecord \cup {None}]
        /\ store \in [Tenants -> WideRecord \cup {None}]
        /\ \A t \in Tenants : c.seen[t] # None => MineAll(c.seen[t].refs, t, 0)
        /\ \A t \in Tenants : store[t] # None => MineAll(store[t].refs, t, 0)
    BY <1>1, Claims DEF IInv, Types, CallOK
  <2>4. /\ \/ store' = [c.seen EXCEPT ![c.tenant] = rec]
           \/ store' = [store EXCEPT ![c.tenant] = rec]
        /\ Quit(p) /\ UNCHANGED <<cloud, born>>
    BY <1>1, <1>3, <2>1 DEF Save, FileWrite, RowWrite
  <2>5. /\ store' \in [Tenants -> WideRecord \cup {None}]
        /\ \A t \in Tenants : store'[t] # None => MineAll(store'[t].refs, t, 0)
    BY <2>2, <2>3, <2>4
  <2>. QED  BY <2>4, <2>5, Ends
<1>. QED  BY <1>2, <1>3

-----------------------------------------------------------------------------
(* provisionAgent makes and registers. *)

\* The target group names of the tenants differ: tgName cuts a name to 32
\* characters, 25 of them of the tenant's id.
OwnNames == \A t, u \in Tenants : TgName[t] = TgName[u] => t = u

\* The call after it made, found or faked resource i of the kind it was at.
Gets(p, k, i, undo) == [Next1(p) EXCEPT !.refs[k] = i, !.undo = undo]

\* One reference is set and the others stay.
LEMMA OneRef ==
    ASSUME NEW f \in WideRefs, NEW k \in Kinds, NEW i \in Nat, NEW g, g = [f EXCEPT ![k] = i]
    PROVE  g \in WideRefs /\ g[k] = i /\ \A j \in Kinds \ {k} : g[j] = f[j]
  BY DEF WideRefs

\* A call that has got what it was at is a call of that tenant still.
LEMMA Got ==
    ASSUME IInv, NEW p \in Procs, Creating(p), NEW k \in Kinds, k = CreateStep(p),
           NEW i \in Nat, NEW n, Mine(i, call[p].tenant, n),
           NEW undo, NEW c, c = Gets(p, k, i, undo)
    PROVE  /\ Full(c) /\ c.at \in Nat \ {0} /\ c.running \in BOOLEAN
           /\ c.tenant = call[p].tenant /\ c.old = call[p].old /\ c.seen = call[p].seen
           /\ c.refs \in WideRefs /\ MineAll(c.refs, c.tenant, n) /\ CallOK(c)
<1>1. PICK b : b = Next1(p)
  OBVIOUS
<1>. Full(call[p])
  BY CallIs
<1>2. /\ Full(b) /\ b.op = call[p].op /\ b.tenant = call[p].tenant /\ b.refs = call[p].refs
      /\ b.old = call[p].old /\ b.seen = call[p].seen /\ b.at = call[p].at + 1
      /\ b.running = call[p].running /\ b.phase = call[p].phase
  BY <1>1 DEF Next1, Full
<1>3. /\ Full(c) /\ c.op = b.op /\ c.tenant = b.tenant /\ c.refs = [b.refs EXCEPT ![k] = i]
      /\ c.old = b.old /\ c.seen = b.seen /\ c.at = b.at /\ c.running = b.running
      /\ c.phase = b.phase
  BY <1>1, <1>2 DEF Full, Gets
<1>4. b.refs \in WideRefs /\ MineAll(b.refs, b.tenant, n)
  BY <1>2, HoldsMine
<1>5. /\ c.refs \in WideRefs /\ c.refs[k] = i
      /\ \A j \in Kinds \ {k} : c.refs[j] = call[p].refs[j]
  BY <1>2, <1>3, <1>4, OneRef
<1>6. MineAll(c.refs, c.tenant, n)
  BY <1>2, <1>3, <1>4, <1>5 DEF MineAll
<1>7. c.at \in Nat \ {0} /\ c.running \in BOOLEAN
  BY <1>2, <1>3, CallIs
<1>8. CallOK(c)
  BY <1>2, <1>3, <1>5, <1>7, CallIs, HoldsMine DEF CallOK
<1>. QED  BY <1>2, <1>3, <1>5, <1>6, <1>7, <1>8

\* A step of provisionAgent makes, finds or fakes a resource.
LEMMA CreateInv ==
    ASSUME OwnNames, IInv, NEW p \in Procs, Create(p)
    PROVE  IInv'
<1>. DEFINE T == call[p].tenant
            old == Existing(CreateStep(p), T)
<1>1. PICK k : k = CreateStep(p)
  OBVIOUS
<1>2. PICK undo : undo = IF Registers(k) THEN Append(Next1(p).undo, k) ELSE Next1(p).undo
  OBVIOUS
<1>3. /\ Creating(p) /\ k \in Kinds /\ UNCHANGED <<targets, store>>
      /\ \/ ~Real(k) /\ Set(p, Gets(p, k, 0, undo)) /\ UNCHANGED <<cloud, born>>
         \/ Real(k) /\ Set(p, Gets(p, k, born + 1, undo)) /\ Make(k, T, call[p].refs)
         \/ \E r \in old : Set(p, Gets(p, k, r.id, undo)) /\ UNCHANGED <<cloud, born>>
  BY <1>1, <1>2 DEF Create, Gets
<1>4. /\ \A t \in Tenants : store[t] # None => MineAll(store[t].refs, t, 0)
      /\ \A t \in Tenants : call[p].seen[t] # None => MineAll(call[p].seen[t].refs, t, 0)
      /\ store \in [Tenants -> WideRecord \cup {None}]
      /\ MineAll(call[p].old, T, 0)
      /\ born \in Nat
  BY Claims DEF IInv, Types
<1>. HIDE DEF old
<1>5. ASSUME NEW i \in Nat, Mine(i, T, 0),
             Set(p, Gets(p, k, i, undo)), UNCHANGED <<cloud, born>>
      PROVE  IInv'
  <2>1. PICK c : c = Gets(p, k, i, undo)
    OBVIOUS
  <2>2. /\ c.tenant = T /\ c.old = call[p].old /\ c.seen = call[p].seen
        /\ MineAll(c.refs, c.tenant, 0) /\ CallOK(c)
    BY <1>1, <1>3, <1>5, <2>1, Got
  <2>3. call' = [call EXCEPT ![p] = c] /\ UNCHANGED mode
    BY <1>5, <2>1 DEF Set, settings
  <2>. QED  BY <1>3, <1>4, <1>5, <2>2, <2>3, OneCall
<1>6. CASE ~Real(k) /\ Set(p, Gets(p, k, 0, undo)) /\ UNCHANGED <<cloud, born>>
  BY <1>5, <1>6 DEF Mine
<1>7. CASE Real(k) /\ Set(p, Gets(p, k, born + 1, undo)) /\ Make(k, T, call[p].refs)
  <2>1. PICK c : c = Gets(p, k, born + 1, undo)
    OBVIOUS
  <2>2. Mine(born + 1, T, born + 1) /\ born + 1 \in Nat /\ born + 1 # 0
    BY <1>4 DEF Mine
  <2>3. /\ Full(c) /\ c.at \in Nat \ {0} /\ c.running \in BOOLEAN
        /\ c.tenant = T /\ c.old = call[p].old /\ c.seen = call[p].seen
        /\ c.refs \in WideRefs /\ MineAll(c.refs, c.tenant, born + 1)
    BY <1>1, <1>3, <2>1, <2>2, Got
  <2>4. call[p].refs \in WideRefs /\ MineAll(call[p].refs, T, 0)
    BY HoldsMine
  <2>5. Set(p, c) /\ Make(k, c.tenant, call[p].refs)
    BY <1>7, <2>1, <2>3
  <2>. QED  BY <1>3, <2>3, <2>4, <2>5, Makes
<1>8. ASSUME NEW r \in old, Set(p, Gets(p, k, r.id, undo)), UNCHANGED <<cloud, born>>
      PROVE  IInv'
  <2>1. r \in cloud /\ TgName[r.tenant] = TgName[T]
    BY DEF old, Existing
  <2>2. r \in WideResource
    BY <2>1 DEF IInv, Types
  <2>3. r.id \in Nat /\ r.id # 0 /\ r.tenant \in Tenants
    BY <2>2 DEF WideResource
  <2>4. r.tenant = T
    BY <2>1, <2>3, CallIs DEF OwnNames
  <2>5. Mine(r.id, T, 0)
    BY <2>1, <2>4, Claims
  <2>. QED  BY <1>5, <1>8, <2>3, <2>5
<1>. QED  BY <1>3, <1>6, <1>7, <1>8

\* The address is registered, and the wiring goes on the rollback stack.
LEMMA RegisterIpInv ==
    ASSUME IInv, NEW p \in Procs, RegisterIp(p)
    PROVE  IInv'
<1>1. PICK c : c = [Next1(p) EXCEPT !.undo = @ \o <<"tg", "target", "rule">>]
  OBVIOUS
<1>2. PICK b : b = Next1(p)
  OBVIOUS
<1>. Full(call[p])
  BY CallIs
<1>3. /\ Full(b) /\ b.op = call[p].op /\ b.tenant = call[p].tenant /\ b.refs = call[p].refs
      /\ b.old = call[p].old /\ b.seen = call[p].seen /\ b.at = call[p].at + 1
      /\ b.running = call[p].running /\ b.phase = call[p].phase
  BY <1>2 DEF Next1, Full
<1>4. /\ Full(c) /\ c.op = b.op /\ c.tenant = b.tenant /\ c.refs = b.refs
      /\ c.old = b.old /\ c.seen = b.seen /\ c.at = b.at /\ c.running = b.running
      /\ c.phase = b.phase
  BY <1>1, <1>2, <1>3 DEF Full
<1>5. Set(p, c) /\ UNCHANGED <<cloud, born, store>>
  BY <1>1 DEF RegisterIp
<1>. QED  BY <1>3, <1>4, <1>5, CallIs, MovesOn

\* A task stops by itself, and a stopped task goes.
LEMMA TaskGoneInv ==
    ASSUME IInv, TaskExits \/ TaskGone
    PROVE  IInv'
<1>1. cloud' \subseteq cloud /\ UNCHANGED <<mode, born, store, call>>
  BY DEF TaskExits, TaskGone, settings
<1>2. Types'
  BY <1>1 DEF IInv, Types
<1>3. \A i \in Nat \ {0} : \A t \in Tenants : Claim(i, t)' => Claim(i, t)
  BY <1>1 DEF Claim
<1>4. PICK t \in Tenants : TRUE
  BY ProvisionerAssumption
<1>. QED  BY <1>1, <1>2, <1>3, <1>4, KeptApart

-----------------------------------------------------------------------------
(* The theorems. *)

\* Nothing is claimed at first.
LEMMA InitIInv ==
    ASSUME Init
    PROVE  IInv
<1>1. PICK t \in Tenants : t = CHOOSE u \in Tenants : TRUE
  BY ProvisionerAssumption
<1>2. PICK b : b = NoCall(t)
  OBVIOUS
<1>3. Fresh(b) /\ b.refs = NoRef /\ b.old = NoRef /\ b.tenant = t /\ b.op = "idle"
  BY <1>2, NoCallIsFresh DEF NoCall
<1>4. /\ call = [p \in Procs |-> call[p]] /\ \A p \in Procs : call[p] = b
      /\ cloud = {} /\ targets = {} /\ born = 0 /\ mode \in {"alb", "public", "local"}
      /\ store = [u \in Tenants |-> None]
  BY <1>1, <1>2, ProvisionerAssumption DEF Init
<1>5. CallOK(b)
  BY <1>3 DEF Fresh, CallOK, NoRef, WideRefs
<1>6. Types
  BY <1>4, <1>5 DEF Types
<1>7. ASSUME NEW i \in Nat \ {0}, NEW u \in Tenants
      PROVE  ~Claim(i, u)
  BY <1>3, <1>4 DEF Claim, Fresh, NoRef
<1>. QED  BY <1>4, <1>6, <1>7 DEF IInv, Claimed, Separate

\* Every step keeps the tenants apart.
LEMMA StepIInv ==
    ASSUME OwnNames, IInv, [Next]_vars
    PROVE  IInv'
<1>1. CASE UNCHANGED vars
  <2>1. UNCHANGED <<mode, cloud, born, store, call>>
    BY <1>1 DEF vars, settings, world
  <2>. QED  BY <2>1 DEF IInv, Types, Claimed, Separate, Claim
<1>2. CASE TaskExits \/ TaskGone
  BY <1>2, TaskGoneInv
<1>3. ASSUME NEW p \in Procs, ProvisionStep(p)
      PROVE  IInv'
  BY <1>3, CreateInv, RegisterIpInv, WaitedInv, ThrowsInv, HalfMadeInv, ProvisionedInv,
     UndoInv, GivenUpInv DEF ProvisionStep, WaitForHealthy, ResolveTaskIp, WaitTargetHealthy
<1>4. ASSUME NEW p \in Procs, CallStep(p)
      PROVE  IInv'
  BY <1>3, <1>4, DeleteInv, GivenUpInv, TornDownInv, DockerControlsInv, SwapInv, SwapFailsInv,
     LoadInv, SaveInv DEF CallStep
<1>5. ASSUME NEW p \in Procs, BeginCall(p) \/ Kill(p)
      PROVE  IInv'
  BY <1>5, BeginCallInv, GivenUpInv
<1>. QED  BY <1>1, <1>2, <1>4, <1>5 DEF Next

\* No id is ever named for two tenants, by what exists, the records, the calls
\* in progress or the files that they have read: whatever fails, dies or is
\* killed, for any number of processes, and in whatever order their calls
\* interleave: provided that no two tenants' target groups have one name,
\* which is how createTargetGroup finds a group again.
THEOREM TenantsApart == OwnNames => (Spec => []Separate)
<1>1. IInv => Separate
  BY DEF IInv
<1>2. OwnNames /\ IInv /\ [Next]_vars => IInv'
  BY StepIInv
<1>3. OwnNames => OwnNames'
  BY DEF OwnNames
<1>. QED  BY <1>1, <1>2, <1>3, InitIInv, PTL DEF Spec

\* A deletion takes the resource that it names; that of a task may take the
\* tenant's container instead.
LEMMA Unmakes ==
    ASSUME NEW k, NEW i, NEW t, Unmake(k, i, t), NEW r \in cloud, r \notin cloud'
    PROVE  r.kind = k /\ (k # "task" => r.id = i)
  BY DEF Unmake, Of

\* An agent's data go only when a teardown was told so or its creation rolls
\* back, for any number of tenants and calls in progress.
THEOREM DataGo == Spec => DataGoOnPurpose
<1>1. ASSUME Next, NEW r \in cloud, r \notin cloud', r.kind = "accessPoint"
      PROVE  \E p \in Procs : MayDropData(p) /\ call[p].refs["accessPoint"] = r.id
  <2>1. ~TaskExits /\ ~TaskGone
    BY <1>1 DEF TaskExits, TaskGone
  <2>2. PICK p \in Procs : BeginCall(p) \/ CallStep(p) \/ Kill(p)
    BY <1>1, <2>1 DEF Next
  <2>3. ASSUME NEW k, NEW t, NEW refs, Make(k, t, refs)
        PROVE  FALSE
    BY <1>1, <2>3 DEF Make, Replaced, Of
  <2>4. ASSUME NEW k, NEW c, NEW a, Removal(k, c, a)
        PROVE  k = "accessPoint" /\ c.refs[k] = r.id
    BY <1>1, <2>4, Unmakes DEF Removal
  <2>5. ASSUME Undo(p)
        PROVE  MayDropData(p) /\ call[p].refs["accessPoint"] = r.id
    BY <1>1, <2>4, <2>5 DEF MayDropData, Undo, Undoing, Goes
  <2>6. ASSUME Delete(p)
        PROVE  MayDropData(p) /\ call[p].refs["accessPoint"] = r.id
    BY <1>1, <2>4, <2>6 DEF MayDropData, Delete, Skips, TearingDown, Goes
  <2>7. ~Swap(p)
    BY <1>1, <2>3, Unmakes DEF Swap
  <2>8. ~ProvisionStep(p) \/ Undo(p)
    BY <1>1, <2>3 DEF ProvisionStep, Create, RegisterIp, Waited, WaitForHealthy, ResolveTaskIp,
       WaitTargetHealthy, Throws, SgRulesFail, DockerRunFails, Provisioned, UndoFails, Undone, world
  <2>9. ~BeginCall(p) /\ ~Kill(p)
    BY <1>1 DEF BeginCall, Provision, Read, Update, Begin, Kill, world
  <2>10. CallStep(p) => ProvisionStep(p) \/ Delete(p) \/ Swap(p)
    BY <1>1 DEF CallStep, DeleteFails, TornDown, DockerControls, SwapFails, Load, Save, SaveFails, world
  <2>. QED  BY <2>2, <2>5, <2>6, <2>7, <2>8, <2>9, <2>10
<1>2. [Next]_vars =>
        [\A r \in cloud \ cloud' : r.kind = "accessPoint" =>
            \E p \in Procs : MayDropData(p) /\ call[p].refs["accessPoint"] = r.id]_vars
  BY <1>1
<1>. QED  BY <1>2, PTL DEF Spec, DataGoOnPurpose

-----------------------------------------------------------------------------
(* Types.  *)

\* What the rollback stack holds, the phases of a call, and the whole store.
Entry == Kinds \cup {"target"}
Phases == {"work", "undo", "load", "save"}
File == [Tenants -> AgentRecord \cup {None}]

\* A call, field by field.
LEMMA CallFields ==
    ASSUME NEW c
    PROVE  c \in Call <=>
              /\ Full(c)
              /\ c.op \in {"idle", "provision", "teardown", "control", "update"}
              /\ c.tenant \in Tenants /\ c.phase \in Phases /\ c.at \in Nat
              /\ c.refs \in Refs /\ c.old \in Refs /\ c.undo \in Seq(Entry)
              /\ c.data \in BOOLEAN /\ c.running \in BOOLEAN /\ c.seen \in File
  BY DEF Call, Full, Entry, Phases, File

\* Every step leaves a call with other values in some of its fields.
LEMMA CallMoves ==
    ASSUME NEW c \in Call
    PROVE  /\ \A ph \in Phases : [c EXCEPT !.phase = ph] \in Call
           /\ [c EXCEPT !.at = @ + 1] \in Call
           /\ \A u \in Seq(Entry) : [c EXCEPT !.undo = u] \in Call
           /\ \A r \in Refs : [c EXCEPT !.refs = r] \in Call
<1>. /\ Full(c)
     /\ c.op \in {"idle", "provision", "teardown", "control", "update"}
     /\ c.tenant \in Tenants /\ c.phase \in Phases /\ c.at \in Nat
     /\ c.refs \in Refs /\ c.old \in Refs /\ c.undo \in Seq(Entry)
     /\ c.data \in BOOLEAN /\ c.running \in BOOLEAN /\ c.seen \in File
  BY CallFields
<1>1. ASSUME NEW ph \in Phases, NEW d, d = [c EXCEPT !.phase = ph]
      PROVE  d \in Call
  <2>1. Full(d) /\ d.op = c.op /\ d.tenant = c.tenant /\ d.phase = ph /\ d.at = c.at
        /\ d.refs = c.refs /\ d.old = c.old /\ d.undo = c.undo /\ d.data = c.data
        /\ d.running = c.running /\ d.seen = c.seen
    BY <1>1 DEF Full
  <2>. QED  BY <2>1, CallFields
<1>2. ASSUME NEW d, d = [c EXCEPT !.at = @ + 1]
      PROVE  d \in Call
  <2>1. Full(d) /\ d.op = c.op /\ d.tenant = c.tenant /\ d.phase = c.phase /\ d.at = c.at + 1
        /\ d.refs = c.refs /\ d.old = c.old /\ d.undo = c.undo /\ d.data = c.data
        /\ d.running = c.running /\ d.seen = c.seen
    BY <1>2 DEF Full
  <2>. QED  BY <2>1, CallFields
<1>3. ASSUME NEW u \in Seq(Entry), NEW d, d = [c EXCEPT !.undo = u]
      PROVE  d \in Call
  <2>1. Full(d) /\ d.op = c.op /\ d.tenant = c.tenant /\ d.phase = c.phase /\ d.at = c.at
        /\ d.refs = c.refs /\ d.old = c.old /\ d.undo = u /\ d.data = c.data
        /\ d.running = c.running /\ d.seen = c.seen
    BY <1>3 DEF Full
  <2>. QED  BY <2>1, CallFields
<1>4. ASSUME NEW r \in Refs, NEW d, d = [c EXCEPT !.refs = r]
      PROVE  d \in Call
  <2>1. Full(d) /\ d.op = c.op /\ d.tenant = c.tenant /\ d.phase = c.phase /\ d.at = c.at
        /\ d.refs = r /\ d.old = c.old /\ d.undo = c.undo /\ d.data = c.data
        /\ d.running = c.running /\ d.seen = c.seen
    BY <1>4 DEF Full
  <2>. QED  BY <2>1, CallFields
<1>. QED  BY <1>1, <1>2, <1>3, <1>4

-----------------------------------------------------------------------------
\* No step changes the call of another process.
CallsTyped == call' \in [Procs -> Call] /\ UNCHANGED settings

\* A process's call becomes another call.
LEMMA SetTyped ==
    ASSUME TypeOK, NEW p \in Procs, NEW c \in Call, Set(p, c)
    PROVE  CallsTyped
  BY DEF TypeOK, Set, CallsTyped

\* The fields of a process's call.
LEMMA CallTyped ==
    ASSUME TypeOK, NEW p \in Procs
    PROVE  /\ call[p] \in Call
           /\ Full(call[p])
           /\ call[p].op \in {"idle", "provision", "teardown", "control", "update"}
           /\ call[p].tenant \in Tenants /\ call[p].phase \in Phases /\ call[p].at \in Nat
           /\ call[p].refs \in Refs /\ call[p].old \in Refs /\ call[p].undo \in Seq(Entry)
           /\ call[p].data \in BOOLEAN /\ call[p].running \in BOOLEAN /\ call[p].seen \in File
<1>1. call[p] \in Call
  BY DEF TypeOK
<1>. QED  BY <1>1, CallFields

\* So is the call of a process at rest.
LEMMA NoCallTyped ==
    ASSUME NEW t \in Tenants
    PROVE  NoCall(t) \in Call
<1>. DEFINE noFile == [x \in Tenants |-> None]
<1>1. PICK c : c = [op |-> "idle", tenant |-> t, phase |-> "work", at |-> 1, refs |-> NoRef,
           old |-> NoRef, undo |-> <<>>, data |-> FALSE, running |-> FALSE, seen |-> noFile]
  OBVIOUS
<1>2. c = NoCall(t)
  BY <1>1 DEF NoCall
<1>3. noFile \in File /\ NoRef \in Refs /\ <<>> \in Seq(Entry)
  BY EmptySeq DEF File, NoRef, Refs, Ids
<1>. HIDE DEF noFile
<1>4. Full(c)
  BY <1>1 DEF Full
<1>5. c.op = "idle" /\ c.tenant = t /\ c.phase = "work" /\ c.at = 1 /\ c.refs = NoRef
      /\ c.old = NoRef /\ c.undo = <<>> /\ c.data = FALSE /\ c.running = FALSE /\ c.seen = noFile
  BY <1>1
<1>6. c.data \in BOOLEAN /\ c.running \in BOOLEAN
  BY <1>5
<1>7. c.op \in {"idle", "provision", "teardown", "control", "update"} /\ c.tenant \in Tenants
      /\ c.phase \in Phases /\ c.at \in Nat /\ c.refs \in Refs /\ c.old \in Refs
      /\ c.undo \in Seq(Entry) /\ c.seen \in File
  BY <1>3, <1>5 DEF Phases
<1>. QED  BY <1>2, <1>4, <1>6, <1>7, CallFields

\* A call ends.
LEMMA QuitTyped ==
    ASSUME TypeOK, NEW p \in Procs, Quit(p)
    PROVE  CallsTyped
  BY CallTyped, NoCallTyped, SetTyped DEF Quit

\* A call begins with what its caller read.
LEMMA BeginTyped ==
    ASSUME TypeOK, NEW p \in Procs, NEW c \in Call, NEW t \in Tenants,
           NEW op \in {"provision", "teardown", "control", "update"}, Begin(p, op, t, c)
    PROVE  CallsTyped
<1>1. PICK d : d = [c EXCEPT !.op = op, !.tenant = t]
  OBVIOUS
<1>2. /\ Full(c)
      /\ c.op \in {"idle", "provision", "teardown", "control", "update"}
      /\ c.tenant \in Tenants /\ c.phase \in Phases /\ c.at \in Nat
      /\ c.refs \in Refs /\ c.old \in Refs /\ c.undo \in Seq(Entry)
      /\ c.data \in BOOLEAN /\ c.running \in BOOLEAN /\ c.seen \in File
  BY CallFields
<1>3. Full(d) /\ d.op = op /\ d.tenant = t /\ d.phase = c.phase /\ d.at = c.at
      /\ d.refs = c.refs /\ d.old = c.old /\ d.undo = c.undo /\ d.data = c.data
      /\ d.running = c.running /\ d.seen = c.seen
  BY <1>1, <1>2 DEF Full
<1>4. d \in Call
  BY <1>2, <1>3, CallFields
<1>. QED  BY <1>1, <1>4, SetTyped DEF Begin

\* Each of the calls that a process may begin.
LEMMA BeginCallTyped ==
    ASSUME TypeOK, NEW p \in Procs, BeginCall(p)
    PROVE  CallsTyped
<1>1. ASSUME NEW t \in Tenants, Provision(p, t) PROVE CallsTyped
  BY <1>1, NoCallTyped, BeginTyped DEF Provision
<1>2. ASSUME NEW t \in Tenants, NEW op \in {"teardown", "control"}, NEW d \in BOOLEAN,
             Read(p, op, t, d)
      PROVE  CallsTyped
  <2>1. PICK b : b = NoCall(t)
    OBVIOUS
  <2>2. PICK c : c = [b EXCEPT !.refs = store[t].refs, !.old = store[t].refs,
                               !.running = store[t].running, !.data = d]
    OBVIOUS
  <2>3. store[t].refs \in Refs /\ store[t].running \in BOOLEAN
    BY <1>2 DEF Read, TypeOK, AgentRecord
  <2>4. /\ Full(b)
        /\ b.op \in {"idle", "provision", "teardown", "control", "update"}
        /\ b.tenant \in Tenants /\ b.phase \in Phases /\ b.at \in Nat
        /\ b.undo \in Seq(Entry) /\ b.seen \in File
    BY <2>1, NoCallTyped, CallFields
  <2>5. Full(c) /\ c.op = b.op /\ c.tenant = b.tenant /\ c.phase = b.phase /\ c.at = b.at
        /\ c.refs = store[t].refs /\ c.old = store[t].refs /\ c.undo = b.undo /\ c.data = d
        /\ c.running = store[t].running /\ c.seen = b.seen
    BY <2>2, <2>4 DEF Full
  <2>6. c \in Call
    BY <2>3, <2>4, <2>5, CallFields
  <2>7. Begin(p, op, t, c)
    BY <1>2, <2>1, <2>2 DEF Read
  <2>. QED  BY <2>6, <2>7, BeginTyped
<1>3. ASSUME NEW t \in Tenants, Update(p, t) PROVE CallsTyped
  <2>1. PICK r \in Up(t) :
          Begin(p, "update", t, [NoCall(t) EXCEPT !.old = [r.refs EXCEPT !["task"] = r.id],
                                                  !.refs = [r.refs EXCEPT !["task"] = r.id]])
    BY <1>3 DEF Update
  <2>2. PICK b : b = NoCall(t)
    OBVIOUS
  <2>3. PICK refs : refs = [r.refs EXCEPT !["task"] = r.id]
    OBVIOUS
  <2>4. PICK c : c = [b EXCEPT !.old = refs, !.refs = refs]
    OBVIOUS
  <2>5. r.refs \in Refs /\ r.id \in Nat
    BY DEF Up, Of, TypeOK, Resource, Ids
  <2>6. refs \in Refs
    BY <2>3, <2>5 DEF Refs, Ids
  <2>7. /\ Full(b)
        /\ b.op \in {"idle", "provision", "teardown", "control", "update"}
        /\ b.tenant \in Tenants /\ b.phase \in Phases /\ b.at \in Nat
        /\ b.undo \in Seq(Entry) /\ b.data \in BOOLEAN /\ b.running \in BOOLEAN /\ b.seen \in File
    BY <2>2, NoCallTyped, CallFields
  <2>8. Full(c) /\ c.op = b.op /\ c.tenant = b.tenant /\ c.phase = b.phase /\ c.at = b.at
        /\ c.refs = refs /\ c.old = refs /\ c.undo = b.undo /\ c.data = b.data
        /\ c.running = b.running /\ c.seen = b.seen
    BY <2>4, <2>7 DEF Full
  <2>9. c \in Call
    BY <2>6, <2>7, <2>8, CallFields
  <2>10. Begin(p, "update", t, c)
    BY <2>1, <2>2, <2>3, <2>4
  <2>. QED  BY <2>9, <2>10, BeginTyped
<1>. QED  BY <1>1, <1>2, <1>3 DEF BeginCall, DeleteData

\* What is left of a rollback stack is one.
LEMMA SubSeqTyped ==
    ASSUME NEW u \in Seq(Entry), NEW n \in Int, n <= Len(u)
    PROVE  SubSeq(u, 1, n) \in Seq(Entry)
<1>1. CASE n < 1
  <2>1. SubSeq(u, 1, n) = << >>
    BY <1>1, SubSeqEmpty
  <2>. QED  BY <2>1, EmptySeq
<1>2. CASE n >= 1
  BY <1>2, SubSeqProperties
<1>. QED  BY <1>1, <1>2

\* provisionAgent and its rollback.
LEMMA ProvisionTyped ==
    ASSUME TypeOK, NEW p \in Procs, ProvisionStep(p)
    PROVE  CallsTyped
<1>. /\ call[p] \in Call
     /\ Full(call[p])
     /\ call[p].op \in {"idle", "provision", "teardown", "control", "update"}
     /\ call[p].tenant \in Tenants /\ call[p].phase \in Phases /\ call[p].at \in Nat
     /\ call[p].refs \in Refs /\ call[p].old \in Refs /\ call[p].undo \in Seq(Entry)
     /\ call[p].data \in BOOLEAN /\ call[p].running \in BOOLEAN /\ call[p].seen \in File
  BY CallTyped
<1>1. ASSUME NEW ph \in Phases, Set(p, [call[p] EXCEPT !.phase = ph])
      PROVE  CallsTyped
  BY <1>1, CallMoves, SetTyped
<1>2. ASSUME Set(p, Next1(p))
      PROVE  CallsTyped
  BY <1>2, CallMoves, SetTyped DEF Next1
<1>3. ASSUME NEW u \in Seq(Entry), Set(p, [call[p] EXCEPT !.undo = u])
      PROVE  CallsTyped
  BY <1>3, CallMoves, SetTyped
<1>4. CASE Create(p)
  <2>1. PICK k : k = CreateStep(p)
    OBVIOUS
  <2>2. PICK b : b = Next1(p)
    OBVIOUS
  <2>3. PICK u : u = IF Registers(k) THEN Append(b.undo, k) ELSE b.undo
    OBVIOUS
  <2>4. k \in Kinds
    BY <1>4, <2>1 DEF Create
  <2>5. \/ Set(p, [b EXCEPT !.refs[k] = 0, !.undo = u])
        \/ Set(p, [b EXCEPT !.refs[k] = born + 1, !.undo = u])
        \/ \E r \in cloud : Set(p, [b EXCEPT !.refs[k] = r.id, !.undo = u])
    BY <1>4, <2>1, <2>2, <2>3 DEF Create, Existing
  <2>6. b \in Call
    BY <2>2, CallMoves DEF Next1
  <2>7. /\ Full(b)
        /\ b.op \in {"idle", "provision", "teardown", "control", "update"}
        /\ b.tenant \in Tenants /\ b.phase \in Phases /\ b.at \in Nat
        /\ b.refs \in Refs /\ b.old \in Refs /\ b.undo \in Seq(Entry)
        /\ b.data \in BOOLEAN /\ b.running \in BOOLEAN /\ b.seen \in File
    BY <2>6, CallFields
  <2>8. u \in Seq(Entry)
    BY <2>3, <2>4, <2>7, AppendProperties DEF Entry
  <2>9. ASSUME NEW i \in Nat, Set(p, [b EXCEPT !.refs[k] = i, !.undo = u])
        PROVE  CallsTyped
    <3>1. PICK c : c = [b EXCEPT !.refs[k] = i, !.undo = u]
      OBVIOUS
    <3>2. Full(c) /\ c.op = b.op /\ c.tenant = b.tenant /\ c.phase = b.phase /\ c.at = b.at
          /\ c.refs = [b.refs EXCEPT ![k] = i] /\ c.old = b.old /\ c.undo = u
          /\ c.data = b.data /\ c.running = b.running /\ c.seen = b.seen
      BY <2>7, <3>1 DEF Full
    <3>3. c.refs \in Refs
      BY <2>4, <2>7, <3>2 DEF Refs, Ids
    <3>4. c \in Call
      BY <2>7, <2>8, <3>2, <3>3, CallFields
    <3>. QED  BY <2>9, <3>1, <3>4, SetTyped
  <2>10. 0 \in Nat /\ born + 1 \in Nat /\ \A r \in cloud : r.id \in Nat
    BY DEF TypeOK, Resource, Ids
  <2>. QED  BY <2>5, <2>9, <2>10
<1>5. CASE RegisterIp(p)
  <2>1. PICK b : b = Next1(p)
    OBVIOUS
  <2>2. b \in Call
    BY <2>1, CallMoves DEF Next1
  <2>3. b.undo \in Seq(Entry) /\ <<"tg", "target", "rule">> \in Seq(Entry)
    BY <2>2, CallFields DEF Entry, Kinds
  <2>4. PICK u : u = b.undo \o <<"tg", "target", "rule">>
    OBVIOUS
  <2>5. u \in Seq(Entry)
    BY <2>3, <2>4, ConcatProperties
  <2>6. Set(p, [b EXCEPT !.undo = u])
    BY <1>5, <2>1, <2>4 DEF RegisterIp
  <2>. QED  BY <2>2, <2>5, <2>6, CallMoves, SetTyped
<1>6. CASE WaitForHealthy(p) \/ ResolveTaskIp(p) \/ WaitTargetHealthy(p)
  BY <1>2, <1>6 DEF WaitForHealthy, ResolveTaskIp, WaitTargetHealthy, Waited
<1>7. CASE Throws(p) \/ SgRulesFail(p) \/ DockerRunFails(p)
  BY <1>1, <1>7 DEF Throws, SgRulesFail, DockerRunFails, Phases
<1>8. CASE Provisioned(p)
  <2>1. PICK b : b = [call[p] EXCEPT !.phase = "load"]
    OBVIOUS
  <2>2. PICK c : c = [call[p] EXCEPT !.phase = "load", !.running = TRUE]
    OBVIOUS
  <2>3. Full(c) /\ c.op = call[p].op /\ c.tenant = call[p].tenant /\ c.phase = "load"
        /\ c.at = call[p].at /\ c.refs = call[p].refs /\ c.old = call[p].old
        /\ c.undo = call[p].undo /\ c.data = call[p].data /\ c.running = TRUE
        /\ c.seen = call[p].seen
    BY <2>2 DEF Full
  <2>4. c.running \in BOOLEAN /\ c.phase \in Phases
    BY <2>3 DEF Phases
  <2>5. c \in Call
    BY <2>3, <2>4, CallFields
  <2>. QED  BY <1>8, <2>2, <2>5, SetTyped DEF Provisioned
<1>9. CASE Undo(p)
  <2>1. Len(call[p].undo) - 1 \in Int
    BY LenProperties
  <2>2. SubSeq(call[p].undo, 1, Len(call[p].undo) - 1) \in Seq(Entry)
    BY <2>1, SubSeqTyped, LenProperties
  <2>. QED  BY <1>3, <1>9, <2>2 DEF Undo
<1>10. CASE UndoFails(p)
  <2>1. Entries(Top(p)) \in {1, 2, 3} /\ Len(call[p].undo) \in Nat
    BY LenProperties DEF Entries
  <2>2. PICK n : n = Len(call[p].undo) - Entries(Top(p))
    OBVIOUS
  <2>3. SubSeq(call[p].undo, 1, n) \in Seq(Entry)
    BY <2>1, <2>2, SubSeqTyped
  <2>4. Set(p, [call[p] EXCEPT !.undo = SubSeq(@, 1, n)])
    BY <1>10, <2>2 DEF UndoFails
  <2>. QED  BY <1>3, <2>3, <2>4
<1>11. CASE Undone(p)
  BY <1>11, QuitTyped DEF Undone
<1>. QED  BY <1>4, <1>5, <1>6, <1>7, <1>8, <1>9, <1>10, <1>11 DEF ProvisionStep

\* teardownAgent, controlAgent, the update and the store.
LEMMA OtherTyped ==
    ASSUME TypeOK, NEW p \in Procs, CallStep(p), ~ProvisionStep(p)
    PROVE  CallsTyped
<1>. /\ call[p] \in Call
     /\ Full(call[p])
     /\ call[p].op \in {"idle", "provision", "teardown", "control", "update"}
     /\ call[p].tenant \in Tenants /\ call[p].phase \in Phases /\ call[p].at \in Nat
     /\ call[p].refs \in Refs /\ call[p].old \in Refs /\ call[p].undo \in Seq(Entry)
     /\ call[p].data \in BOOLEAN /\ call[p].running \in BOOLEAN /\ call[p].seen \in File
  BY CallTyped
<1>1. ASSUME NEW ph \in Phases, Set(p, [call[p] EXCEPT !.phase = ph])
      PROVE  CallsTyped
  BY <1>1, CallMoves, SetTyped
<1>2. Next1(p) \in Call
  BY CallMoves DEF Next1
<1>3. ASSUME Set(p, [Next1(p) EXCEPT !.phase = "load"])
      PROVE  CallsTyped
  BY <1>2, <1>3, CallMoves, SetTyped DEF Phases
<1>4. CASE Delete(p)
  BY <1>2, <1>4, SetTyped DEF Delete
<1>5. CASE DeleteFails(p) \/ SaveFails(p) \/ Save(p)
  BY <1>5, QuitTyped DEF DeleteFails, SaveFails, Save, GiveUp
<1>6. CASE TornDown(p)
  BY <1>1, <1>6 DEF TornDown, Phases
<1>7. CASE \E v \in {"start", "stop", "restart"} : DockerControls(p, v)
  <2>1. CASE Quit(p)
    BY <2>1, QuitTyped
  <2>2. ASSUME NEW running \in BOOLEAN,
               Set(p, [call[p] EXCEPT !.phase = "load", !.running = running])
        PROVE  CallsTyped
    <3>1. PICK c : c = [call[p] EXCEPT !.phase = "load", !.running = running]
      OBVIOUS
    <3>2. Full(c) /\ c.op = call[p].op /\ c.tenant = call[p].tenant /\ c.phase = "load"
          /\ c.at = call[p].at /\ c.refs = call[p].refs /\ c.old = call[p].old
          /\ c.undo = call[p].undo /\ c.data = call[p].data /\ c.running = running
          /\ c.seen = call[p].seen
      BY <3>1 DEF Full
    <3>3. c \in Call
      BY <3>2, CallFields DEF Phases
    <3>. QED  BY <2>2, <3>1, <3>3, SetTyped
  <2>. QED  BY <1>7, <2>1, <2>2 DEF DockerControls
<1>8. CASE Swap(p)
  <2>1. PICK b : b = Next1(p)
    OBVIOUS
  <2>2. ASSUME NEW k \in Kinds, Set(p, [b EXCEPT !.refs[k] = born + 1])
        PROVE  CallsTyped
    <3>1. PICK refs : refs = [b.refs EXCEPT ![k] = born + 1]
      OBVIOUS
    <3>2. b \in Call /\ b.refs \in Refs
      BY <1>2, <2>1, CallFields
    <3>3. refs \in Refs
      BY <3>1, <3>2 DEF Refs, TypeOK, Ids
    <3>4. [b EXCEPT !.refs = refs] \in Call
      BY <3>2, <3>3, CallMoves
    <3>5. [b EXCEPT !.refs[k] = born + 1] = [b EXCEPT !.refs = refs]
      BY <3>1, <3>2
    <3>. QED  BY <2>2, <3>4, <3>5, SetTyped
  <2>3. CASE Set(p, [call[p] EXCEPT !.at = @ + 1, !.phase = "load"])
    <3>1. [call[p] EXCEPT !.at = @ + 1, !.phase = "load"] = [Next1(p) EXCEPT !.phase = "load"]
      BY DEF Next1
    <3>. QED  BY <1>3, <2>3, <3>1
  <2>4. \/ Set(p, [b EXCEPT !.refs["taskDef"] = born + 1])
        \/ Set(p, [b EXCEPT !.refs["task"] = born + 1])
        \/ Set(p, b)
        \/ Set(p, [call[p] EXCEPT !.at = @ + 1, !.phase = "load"])
    BY <1>8, <2>1 DEF Swap
  <2>. QED  BY <1>2, <2>1, <2>2, <2>3, <2>4, SetTyped DEF Kinds
<1>9. CASE SwapFails(p)
  BY <1>3, <1>9, QuitTyped DEF SwapFails, GiveUp
<1>10. CASE Load(p)
  <2>1. PICK c : c = [call[p] EXCEPT !.phase = "save", !.seen = store]
    OBVIOUS
  <2>2. Full(c) /\ c.op = call[p].op /\ c.tenant = call[p].tenant /\ c.phase = "save"
        /\ c.at = call[p].at /\ c.refs = call[p].refs /\ c.old = call[p].old
        /\ c.undo = call[p].undo /\ c.data = call[p].data /\ c.running = call[p].running
        /\ c.seen = store
    BY <2>1 DEF Full
  <2>3. store \in File
    BY DEF TypeOK, File
  <2>4. c \in Call
    BY <2>2, <2>3, CallFields DEF Phases
  <2>. QED  BY <1>10, <2>1, <2>4, SetTyped DEF Load
<1>. QED  BY <1>4, <1>5, <1>6, <1>7, <1>8, <1>9, <1>10 DEF CallStep

\* Every step leaves every call typed.
LEMMA CallsStayTyped ==
    ASSUME TypeOK, Next
    PROVE  CallsTyped
<1>1. CASE TaskExits \/ TaskGone
  BY <1>1 DEF TaskExits, TaskGone, TypeOK, CallsTyped
<1>2. ASSUME NEW p \in Procs, Kill(p) PROVE CallsTyped
  BY <1>2, QuitTyped DEF Kill, GiveUp
<1>. QED  BY <1>1, <1>2, BeginCallTyped, ProvisionTyped, OtherTyped DEF Next

-----------------------------------------------------------------------------
\* What there is, and what the calls gave up or counted.
Registry == Ids \X (Addresses \cup {None})

WorldTyped ==
    /\ cloud' \subseteq Resource
    /\ halted' \subseteq Ids /\ targets' \subseteq Registry
    /\ born' \in Ids /\ kept' \subseteq Ids /\ lost' \subseteq Ids
    /\ spent' \in 0 .. Budget

NetworkTyped == holder' \in [Addresses -> Ids] /\ ip' \in [Procs -> Addresses \cup {None}]

\* What a call makes and takes away.
LEMMA MakeTyped ==
    ASSUME TypeOK, NEW k \in Kinds, NEW t \in Tenants, NEW refs \in Refs, Make(k, t, refs)
    PROVE  cloud' \subseteq Resource /\ born' \in Ids /\ holder' \in [Addresses -> Ids]
<1>1. cloud' \subseteq Resource /\ born' \in Ids
  BY DEF TypeOK, Make, Resource, Ids
<1>2. holder' \in [Addresses -> Ids]
  BY <1>1 DEF TypeOK, Make, TakesAddress
<1>. QED  BY <1>1, <1>2

\* One deletion leaves the world typed,
LEMMA RemovalTyped ==
    ASSUME TypeOK, NEW k, NEW i, NEW t, Unmake(k, i, t)
    PROVE  /\ cloud' \subseteq Resource /\ halted' \subseteq Ids /\ targets' \subseteq Registry
<1>1. \A x \in {i} : Exists(k, x) => x \in Ids
  BY DEF TypeOK, Exists, Resource
<1>. QED  BY <1>1 DEF TypeOK, Unmake, Registry

\* and so does one of a task's address.
LEMMA RemovesTyped ==
    ASSUME TypeOK, NEW k, NEW c, NEW a, Removal(k, c, a)
    PROVE  /\ cloud' \subseteq Resource /\ halted' \subseteq Ids /\ targets' \subseteq Registry
  BY RemovalTyped DEF TypeOK, Removal, Registry

\* A fault is counted only within the budget.
LEMMA FaultTyped ==
    ASSUME TypeOK
    PROVE  /\ \A f : Fault(f) => spent' \in 0 .. Budget
           /\ UNCHANGED spent => spent' \in 0 .. Budget
  BY ProvisionerAssumption DEF TypeOK, Fault

\* What a call holds and gives up is ids.
LEMMA HeldTyped ==
    ASSUME TypeOK, NEW p \in Procs
    PROVE  /\ \A k \in Kinds : call[p].refs[k] \in Ids /\ call[p].old[k] \in Ids
           /\ GivenUp(call[p]) \subseteq Ids
           /\ GiveUp(p) => lost' \subseteq Ids /\ kept' \subseteq Ids
<1>1. \A k \in Kinds : call[p].refs[k] \in Ids /\ call[p].old[k] \in Ids
  BY CallTyped DEF Refs
<1>2. GivenUp(call[p]) \subseteq Ids
  BY <1>1 DEF GivenUp, Kinds
<1>3. DataLeft(p) \subseteq Ids
  BY <1>1 DEF DataLeft, Kinds
<1>. QED  BY <1>1, <1>2, <1>3 DEF GiveUp, TypeOK

\* Every step leaves the world typed.
LEMMA WorldStaysTyped ==
    ASSUME TypeOK, Next
    PROVE  WorldTyped
<1>. USE DEF WorldTyped
<1>0. /\ cloud \subseteq Resource
      /\ halted \subseteq Ids /\ targets \subseteq Registry
      /\ born \in Ids /\ kept \subseteq Ids /\ lost \subseteq Ids
      /\ spent \in 0 .. Budget /\ Budget \in Nat
      /\ \A r \in cloud : r.id \in Ids
      /\ born + 1 \in Ids
  BY ProvisionerAssumption DEF TypeOK, Resource, Ids, Registry
<1>1. CASE TaskExits \/ TaskGone
  BY <1>0, <1>1 DEF TaskExits, TaskGone, history
<1>2. ASSUME NEW p \in Procs, BeginCall(p) PROVE WorldTyped
  <2>1. ASSUME NEW op, NEW t, NEW c, Begin(p, op, t, c) PROVE WorldTyped
    BY <1>0, <2>1 DEF Begin, world, history
  <2>. QED  BY <1>2, <2>1 DEF BeginCall, Provision, Read, Update
<1>3. ASSUME NEW p \in Procs, Kill(p) PROVE WorldTyped
  BY <1>0, <1>3, HeldTyped, FaultTyped DEF Kill
<1>4. ASSUME NEW p \in Procs, ProvisionStep(p) PROVE WorldTyped
  <2>0. /\ call[p].refs \in Refs /\ call[p].tenant \in Tenants
        /\ \A k \in Kinds : call[p].refs[k] \in Ids /\ call[p].old[k] \in Ids
    BY CallTyped, HeldTyped
  <2>1. CASE Create(p)
    BY <1>0, <2>0, <2>1, MakeTyped DEF Create, history
  <2>2. CASE RegisterIp(p)
    <3>1. ip[p] \in Addresses \cup {None} /\ call[p].refs["tg"] \in Ids
      BY <2>0 DEF TypeOK, Kinds
    <3>. QED  BY <1>0, <2>2, <3>1 DEF RegisterIp, history, Registry
  <2>3. CASE WaitForHealthy(p) \/ ResolveTaskIp(p) \/ WaitTargetHealthy(p) \/ Provisioned(p) \/ Undone(p)
    BY <1>0, <2>3 DEF WaitForHealthy, ResolveTaskIp, WaitTargetHealthy, Waited, Provisioned, Undone,
       world, history
  <2>4. CASE Throws(p)
    BY <1>0, <2>4, FaultTyped DEF Throws, world, history
  <2>5. CASE SgRulesFail(p) \/ DockerRunFails(p)
    BY <1>0, <2>0, <2>5, MakeTyped, FaultTyped DEF SgRulesFail, DockerRunFails, Kinds
  <2>6. CASE Undo(p)
    BY <1>0, <2>6, RemovesTyped DEF Undo, history
  <2>7. CASE UndoFails(p)
    BY <1>0, <2>0, <2>7, FaultTyped DEF UndoFails
  <2>. QED  BY <1>4, <2>1, <2>2, <2>3, <2>4, <2>5, <2>6, <2>7 DEF ProvisionStep
<1>5. ASSUME NEW p \in Procs, CallStep(p), ~ProvisionStep(p) PROVE WorldTyped
  <2>0. /\ call[p].refs \in Refs /\ call[p].tenant \in Tenants
        /\ \A k \in Kinds : call[p].refs[k] \in Ids /\ call[p].old[k] \in Ids
    BY CallTyped, HeldTyped
  <2>1. CASE Delete(p)
    BY <1>0, <2>0, <2>1, RemovesTyped DEF Delete, Kinds
  <2>2. CASE DeleteFails(p)
    BY <1>0, <2>2, HeldTyped, FaultTyped DEF DeleteFails
  <2>3. CASE TornDown(p) \/ Load(p)
    BY <1>0, <2>0, <2>3 DEF TornDown, Load, world, history
  <2>8. CASE Save(p)
    <3>1. ASSUME Writes(call[p])
          PROVE  Overwritten(call[p]) \subseteq Ids
      <4>1. ASSUME call[p].op = "update"
            PROVE  call[p].seen[call[p].tenant].refs["taskDef"] \in Ids
        BY <2>0, <3>1, <4>1, CallTyped DEF Writes, File, AgentRecord, Refs, Kinds
      <4>. QED  BY <4>1 DEF Overwritten
    <3>. QED  BY <1>0, <2>8, <3>1, HeldTyped DEF Save
  <2>4. CASE \E v \in {"start", "stop", "restart"} : DockerControls(p, v)
    BY <1>0, <2>4 DEF DockerControls, Of, history
  <2>5. CASE SaveFails(p)
    BY <1>0, <2>5, HeldTyped, FaultTyped DEF SaveFails
  <2>6. CASE Swap(p)
    <3>1. [call[p].refs EXCEPT !["task"] = 0] \in Refs
      BY <2>0 DEF Refs, Ids
    <3>2. \/ \E k \in Kinds, refs \in Refs : Make(k, call[p].tenant, refs) /\ UNCHANGED <<halted, targets>>
          \/ \E k, i : Unmake(k, i, call[p].tenant) /\ UNCHANGED born
          \/ UNCHANGED <<cloud, halted, targets, born>>
      BY <2>0, <2>6, <3>1 DEF Swap, Kinds
    <3>3. UNCHANGED <<kept, lost, spent>>
      BY <2>6 DEF Swap, history
    <3>. QED  BY <1>0, <2>0, <3>2, <3>3, MakeTyped, RemovalTyped
  <2>7. CASE SwapFails(p)
    BY <1>0, <2>0, <2>7, HeldTyped, FaultTyped DEF SwapFails, Kinds
  <2>. QED  BY <1>5, <2>1, <2>2, <2>3, <2>4, <2>5, <2>6, <2>7, <2>8 DEF CallStep
<1>. QED  BY <1>1, <1>2, <1>3, <1>4, <1>5 DEF Next

\* Every step leaves the addresses typed: a new task takes one, a provision and
\* a teardown look one up.
LEMMA NetworkStaysTyped ==
    ASSUME TypeOK, Next
    PROVE  NetworkTyped
<1>. USE DEF NetworkTyped
<1>0. holder \in [Addresses -> Ids] /\ ip \in [Procs -> Addresses \cup {None}]
  BY DEF TypeOK
<1>1. CASE UNCHANGED network
  BY <1>0, <1>1 DEF network
<1>2. ASSUME NEW p \in Procs, NEW k \in Kinds, NEW refs \in Refs,
             Make(k, call[p].tenant, refs), UNCHANGED ip
      PROVE  NetworkTyped
  BY <1>0, <1>2, CallTyped, MakeTyped
<1>3. ASSUME NEW p \in Procs, ProvisionStep(p) PROVE NetworkTyped
  <2>1. CASE Create(p)
    <3>1. CASE UNCHANGED holder
      BY <1>1, <2>1, <3>1 DEF Create, network
    <3>2. CASE Make(CreateStep(p), call[p].tenant, call[p].refs)
      BY <1>2, <2>1, <3>2, CallTyped DEF Create
    <3>. QED  BY <2>1, <3>1, <3>2 DEF Create
  <2>2. CASE ResolveTaskIp(p)
    BY <1>0, <2>2 DEF ResolveTaskIp, Waited, AddressOf
  <2>3. CASE SgRulesFail(p) \/ DockerRunFails(p)
    BY <1>2, <2>3, CallTyped DEF SgRulesFail, DockerRunFails, Kinds
  <2>4. CASE \/ RegisterIp(p) \/ WaitForHealthy(p) \/ WaitTargetHealthy(p) \/ Throws(p)
             \/ Provisioned(p) \/ Undo(p) \/ UndoFails(p) \/ Undone(p)
    BY <1>1, <2>4 DEF RegisterIp, WaitForHealthy, WaitTargetHealthy, Waited, Throws, Provisioned,
       Undo, UndoFails, Undone, world, network
  <2>. QED  BY <1>3, <2>1, <2>2, <2>3, <2>4 DEF ProvisionStep
<1>4. ASSUME NEW p \in Procs, Delete(p) PROVE NetworkTyped
  BY <1>0, <1>4 DEF Delete, Resolves, AddressOf
<1>5. ASSUME NEW p \in Procs, Swap(p) PROVE NetworkTyped
  <2>1. [call[p].refs EXCEPT !["task"] = 0] \in Refs
    BY CallTyped DEF Refs, Ids
  <2>2. \/ \E k \in Kinds, refs \in Refs : Make(k, call[p].tenant, refs)
        \/ UNCHANGED holder
    BY <1>5, <2>1, CallTyped DEF Swap, Kinds
  <2>. QED  BY <1>0, <1>2, <1>5, <2>2 DEF Swap
<1>6. ASSUME NEW p \in Procs, BeginCall(p) PROVE UNCHANGED network
  BY <1>6 DEF BeginCall, Provision, Read, Update, Begin, world
<1>7. ASSUME NEW p \in Procs, CallStep(p), ~ProvisionStep(p), ~Delete(p), ~Swap(p)
      PROVE  UNCHANGED network
  BY <1>7 DEF CallStep, DeleteFails, TornDown, DockerControls, SwapFails, Load, Save, SaveFails,
     world, network
<1>8. ASSUME NEW p \in Procs, Kill(p) PROVE UNCHANGED network
  BY <1>8 DEF Kill, network
<1>9. TaskExits \/ TaskGone => UNCHANGED network
  BY DEF TaskExits, TaskGone, network
<1>. QED  BY <1>1, <1>3, <1>4, <1>5, <1>6, <1>7, <1>8, <1>9 DEF Next

-----------------------------------------------------------------------------
\* What a call writes is a record, or none: a teardown.
LEMMA WriteTyped ==
    ASSUME TypeOK, NEW p \in Procs, NEW c, c = call[p], Writes(c)
    PROVE  /\ ToWrite(c) \in AgentRecord \cup {None}
           /\ c.op # "teardown" => ToWrite(c) \in AgentRecord
<1>1. /\ c.refs \in Refs /\ c.running \in BOOLEAN /\ c.tenant \in Tenants /\ c.seen \in File
      /\ TRUE \in BOOLEAN
  BY CallTyped
<1>2. ASSUME c.op = "update", c.seen[c.tenant] # None PROVE ToWrite(c) \in AgentRecord
  <2>1. PICK refs : refs = [c.seen[c.tenant].refs EXCEPT !["task"] = c.refs["task"],
                                                          !["taskDef"] = c.refs["taskDef"]]
    OBVIOUS
  <2>2. c.seen[c.tenant] \in AgentRecord
    BY <1>1, <1>2 DEF File
  <2>3. refs \in Refs
    BY <1>1, <2>1, <2>2 DEF AgentRecord, Refs, Kinds
  <2>4. ToWrite(c) = [refs |-> refs, running |-> TRUE]
    BY <1>2, <2>1 DEF ToWrite
  <2>. QED  BY <1>1, <2>3, <2>4 DEF AgentRecord
<1>3. ASSUME c.op \notin {"teardown", "update"} PROVE ToWrite(c) \in AgentRecord
  <2>1. PICK rec : rec = [refs |-> c.refs, running |-> c.running]
    OBVIOUS
  <2>2. ToWrite(c) = Stored(rec)
    BY <1>3, <2>1 DEF ToWrite
  <2>3. CASE Stored(rec) = rec
    BY <1>1, <2>1, <2>2, <2>3 DEF AgentRecord
  <2>4. CASE Stored(rec) = [rec EXCEPT !.refs["taskDef"] = 0, !.refs["tg"] = 0, !.refs["rule"] = 0]
    <3>1. PICK refs : refs = [c.refs EXCEPT !["taskDef"] = 0, !["tg"] = 0, !["rule"] = 0]
      OBVIOUS
    <3>2. refs \in Refs
      BY <1>1, <3>1 DEF Refs, Ids
    <3>3. Stored(rec) = [refs |-> refs, running |-> c.running]
      BY <1>1, <2>1, <2>4, <3>1
    <3>. QED  BY <1>1, <2>2, <3>2, <3>3 DEF AgentRecord
  <2>. QED  BY <2>3, <2>4 DEF Stored
<1>4. c.op = "teardown" => ToWrite(c) = None
  BY DEF ToWrite
<1>. QED  BY <1>2, <1>3, <1>4, CallTyped DEF Writes

\* Every step leaves the store typed.
LEMMA StoreStaysTyped ==
    ASSUME TypeOK, Next
    PROVE  store' \in [Tenants -> AgentRecord \cup {None}]
<1>0. store \in [Tenants -> AgentRecord \cup {None}]
  BY DEF TypeOK
<1>1. ASSUME NEW p \in Procs, Save(p), Writes(call[p])
      PROVE  store' \in [Tenants -> AgentRecord \cup {None}]
  <2>1. PICK c : c = call[p]
    OBVIOUS
  <2>2. PICK rec : rec = ToWrite(c)
    OBVIOUS
  <2>3. rec \in AgentRecord \cup {None} /\ c.seen \in [Tenants -> AgentRecord \cup {None}]
    BY <1>1, <2>1, <2>2, WriteTyped, CallTyped DEF File
  <2>4. store' = [c.seen EXCEPT ![c.tenant] = rec] \/ store' = [store EXCEPT ![c.tenant] = rec]
    BY <1>1, <2>1, <2>2 DEF Save, FileWrite, RowWrite
  <2>. QED  BY <1>0, <2>3, <2>4
<1>2. CASE UNCHANGED store
  BY <1>0, <1>2
<1>3. ASSUME NEW p \in Procs, BeginCall(p) PROVE UNCHANGED store
  BY <1>3 DEF BeginCall, Provision, Read, Update, Begin
<1>4. ASSUME NEW p \in Procs, ProvisionStep(p) PROVE UNCHANGED store
  BY <1>4 DEF ProvisionStep, Create, RegisterIp, WaitForHealthy, ResolveTaskIp, WaitTargetHealthy,
     Waited, Throws, SgRulesFail, DockerRunFails, Provisioned, Undo, UndoFails, Undone
<1>5. ASSUME NEW p \in Procs, CallStep(p), ~(Save(p) /\ Writes(call[p])) PROVE UNCHANGED store
  BY <1>4, <1>5 DEF CallStep, Delete, DeleteFails, TornDown, DockerControls, Swap, SwapFails,
     Load, Save, SaveFails
<1>6. TaskExits \/ TaskGone => UNCHANGED store
  BY DEF TaskExits, TaskGone
<1>7. ASSUME NEW p \in Procs, Kill(p) PROVE UNCHANGED store
  BY <1>7 DEF Kill
<1>. QED  BY <1>1, <1>2, <1>3, <1>5, <1>6, <1>7 DEF Next

\* At first everything is typed.
LEMMA InitTyped ==
    ASSUME Init
    PROVE  TypeOK
<1>1. /\ mode \in Modes /\ backend \in Stores(mode) /\ cloud = {} /\ halted = {}
      /\ targets = {} /\ born = 0 /\ kept = {} /\ lost = {} /\ spent = 0
      /\ store = [t \in Tenants |-> None]
      /\ holder = [a \in Addresses |-> 0] /\ ip = [p \in Procs |-> None]
  BY DEF Init
<1>2. call \in [Procs -> Call]
  <2>1. (CHOOSE t \in Tenants : TRUE) \in Tenants
    BY ProvisionerAssumption
  <2>. QED  BY <2>1, NoCallTyped DEF Init
<1>3. spent \in 0 .. Budget
  BY <1>1, ProvisionerAssumption
<1>. QED  BY <1>1, <1>2, <1>3 DEF TypeOK, Ids

\* Every step leaves everything typed.
LEMMA StepTyped ==
    ASSUME TypeOK, [Next]_vars
    PROVE  TypeOK'
<1>1. CASE UNCHANGED vars
  BY <1>1 DEF vars, settings, world, history, network, TypeOK
<1>2. CASE Next
  <2>1. mode' \in Modes /\ backend' \in Stores(mode') /\ call' \in [Procs -> Call]
    BY <1>2, CallsStayTyped DEF CallsTyped, settings, TypeOK
  <2>. QED  BY <1>2, <2>1, WorldStaysTyped, NetworkStaysTyped, StoreStaysTyped
            DEF WorldTyped, NetworkTyped, Registry, TypeOK
<1>. QED  BY <1>1, <1>2

\* Every record that a call writes is one that another can read, and no other
\* value leaves its type, for any number of tenants and calls in every runtime.
THEOREM TypeCorrect == Spec => []TypeOK
<1>1. TypeOK /\ [Next]_vars => TypeOK'
  BY StepTyped
<1>. QED  BY <1>1, InitTyped, PTL DEF Spec

-----------------------------------------------------------------------------
(* Nothing is forgotten, with one call at a time. *)

\* One process makes the calls, one after the other.
OneAtATime == \E p : Procs = {p}

\* The rule priorities of the tenants differ: rulePriority hashes the tenant.
OwnPriorities == \A t, u \in Tenants : Priority[t] = Priority[u] => t = u

\* What keeps the books straight: no step fails between the creation of a
\* target group and the registration of its rollback.
OneByOne ==
    /\ OneAtATime /\ OwnNames /\ OwnPriorities
    /\ "rule" \notin Faults /\ "target" \notin Faults

\* The places of a kind on the rollback stack, in provisionAgent and in teardownAgent.
UndoAt(k) ==
    CASE k = "accessPoint" -> 1 [] k = "secret" -> 2 [] k = "sg" -> 3 [] k = "taskDef" -> 4
      [] k = "task" -> 5 [] k = "tg" -> 6 [] k = "target" -> 7 [] OTHER -> 8

CreateAt(k) ==
    CASE k = "accessPoint" -> 1 [] k = "secret" -> 2 [] k = "sg" -> 3 [] k = "taskDef" -> 4
      [] k = "task" -> 5 [] k = "tg" -> 8 [] OTHER -> 9

TeardownAt(k) ==
    CASE k = "rule" -> 1 [] k = "tg" -> 3 [] k = "task" -> 4 [] k = "taskDef" -> 5
      [] k = "sg" -> 6 [] k = "secret" -> 7 [] OTHER -> 8

\* What has been registered when provisionAgent is at a step.
StackAt(a) == IF a <= 5 THEN a - 1 ELSE IF a <= 10 THEN 5 ELSE 8

Away(r) ==
    \/ r.kind = "task" /\ r.id \in halted /\ mode # "local"
    \/ r.kind = "accessPoint" /\ r.id \in kept
    \/ r.id \in lost

Things(t) == {r \in cloud : r.tenant = t /\ ~Away(r)}

IsUp(r) == r.kind = "task" /\ r.id \notin halted

Has(k, i, t) == \E r \in cloud : r.kind = k /\ r.id = i /\ r.tenant = t

NoSecret(t) == \A r \in cloud : r.kind = "secret" => r.tenant # t

\* What a call will store or undo: of a rollback only what is still on its
\* stack, of an update the two kinds that it swaps.
Hand(c, r) ==
    /\ r.tenant = c.tenant
    /\ \/ /\ c.op = "provision" /\ r.id = c.refs[r.kind]
          /\ c.phase = "undo" => UndoAt(r.kind) <= Len(c.undo)
       \/ /\ c.op = "update" /\ r.kind \in {"task", "taskDef"}
          /\ r.id \in {c.refs[r.kind], c.old[r.kind]}

Handy(r) == \E p \in Procs : Hand(call[p], r)

Leaving(t) == \E p \in Procs : call[p].op = "teardown" /\ call[p].tenant = t

-----------------------------------------------------------------------------
(* The resources. *)

OneId == \A r, q \in cloud : r.id = q.id => r = q

KindsOfMode ==
    \A r \in cloud :
        /\ mode = "local" => r.kind = "task" /\ \A k \in Kinds : r.refs[k] = 0
        /\ mode = "public" => r.kind # "tg" /\ r.kind # "rule"
        /\ r.kind = "task" => \A k \in {"task", "tg", "rule"} : r.refs[k] = 0

OneEach ==
    \A r, q \in cloud :
        r.kind \in {"secret", "tg"} /\ q.kind = r.kind /\ q.tenant = r.tenant => r = q

\* A rule's target group is there, and given up when the rule is.
RulesWired ==
    /\ \A i \in lost : i <= born
    /\ \A r \in cloud : r.kind = "rule" =>
          /\ Has("tg", r.refs["tg"], r.tenant)
          /\ r.id \in lost =>
                \A q \in cloud : q.kind = "tg" /\ q.tenant = r.tenant => q.id \in lost

OneUp ==
    mode = "public" => \A r, q \in cloud :
        IsUp(r) /\ IsUp(q) /\ r.refs["secret"] = q.refs["secret"] => r = q

FullRecords ==
    mode = "alb" => \A t \in Tenants : store[t] # None => \A k \in Kinds : store[t].refs[k] # 0

World == OneId /\ KindsOfMode /\ OneEach /\ RulesWired /\ OneUp /\ FullRecords

-----------------------------------------------------------------------------
(* The books. *)

Accounted == \A r \in cloud : Away(r) \/ Recorded(r) \/ Handy(r)

\* The secret is the first that a tenant gets under his name and goes after
\* everything that costs.
Keyed ==
    mode # "local" => \A t \in Tenants :
        NoSecret(t) /\ ~Leaving(t) => \A r \in Things(t) : Handy(r)

\* A running task whose secret exists was made of all that its tenant has, but
\* for a task definition that the record still names after a failed update.
Stale(r) == r.kind = "taskDef" /\ Recorded(r)

Worn ==
    mode = "public" => \A r \in cloud : IsUp(r) /\ Exists("secret", r.refs["secret"]) =>
        \A q \in Things(r.tenant) : q = r \/ q.id = r.refs[q.kind] \/ Stale(q) \/ Handy(q)

\* What an update may drop from its hand: the record names it, and a task is
\* the only one that runs on a secret of its tenant.
Settled(r) ==
    /\ Recorded(r) /\ ~NoSecret(r.tenant)
    /\ \/ r.kind = "taskDef"
       \/ \A x \in cloud :
             IsUp(x) /\ x.tenant = r.tenant /\ Exists("secret", x.refs["secret"]) => x = r

Books == Accounted /\ Keyed /\ Worn

-----------------------------------------------------------------------------
(* The calls. *)

\* The rollback stack, and what a provision that goes on has.
StackOK(c) ==
    /\ \A i \in 1 .. Len(c.undo) : UndoAt(c.undo[i]) = i
    /\ c.phase # "undo" => c.at <= 12 /\ Len(c.undo) = StackAt(c.at)
    /\ c.phase \in {"load", "save"} => c.at = 12

HasMade(c) ==
    c.phase # "undo" => \A k \in Kinds :
        IF c.at > CreateAt(k) /\ Real(k)
        THEN c.refs[k] # 0 /\ (k # "task" => Has(k, c.refs[k], c.tenant))
        ELSE c.refs[k] = 0

\* The tenant's name is taken: by this call, for all that it has.
TookName(c) == IF mode = "local" THEN c.refs["task"] # 0 ELSE c.refs["secret"] # 0

AllInHand(c) == TookName(c) => \A r \in Things(c.tenant) : Hand(c, r)

OwnTask(c) ==
    mode = "public" /\ c.refs["secret"] # 0 => \A r \in cloud :
        IsUp(r) /\ r.refs["secret"] = c.refs["secret"] =>
            r.id = c.refs["task"] /\ \A k \in Kinds \ {"task"} : r.refs[k] = c.refs[k]

\* Before the secret there is the access point alone, and nothing is made of it.
DataFirst(c) ==
    mode # "local" /\ c.refs["secret"] = 0 =>
        /\ \A k \in Kinds \ {"accessPoint"} : c.refs[k] = 0
        /\ c.refs["accessPoint"] # 0 => \A r \in cloud :
              /\ r.refs["accessPoint"] # c.refs["accessPoint"]
              /\ r.id = c.refs["accessPoint"] => r.kind = "accessPoint"

GoodProvision(c) ==
    /\ StackOK(c) /\ HasMade(c) /\ AllInHand(c) /\ OwnTask(c) /\ DataFirst(c)
    /\ \A k \in Kinds : c.old[k] = 0

GoodRead(c) ==
    /\ store[c.tenant] # None /\ c.refs = store[c.tenant].refs /\ c.phase # "undo"
    /\ c.op = "control" => mode = "local"
    /\ c.op = "teardown" =>
          /\ c.phase # "work" => c.at > 8
          /\ \A r \in Things(c.tenant) : TeardownAt(r.kind) >= c.at
          /\ c.at <= 7 /\ mode # "local" /\ NoSecret(c.tenant) => Things(c.tenant) = {}

\* An update: the old task goes before the new one comes.
Replaces(c) ==
    /\ c.at = 1 => c.refs["taskDef"] = c.old["taskDef"]
    /\ c.at >= 2 => Has("taskDef", c.refs["taskDef"], c.tenant) /\ c.refs["taskDef"] # c.old["taskDef"]
    /\ c.at <= 3 => c.refs["task"] = c.old["task"]
    /\ c.at >= 3 => \A r \in cloud : r.kind = "task" /\ r.id = c.old["task"] => r.id \in halted
    /\ c.at >= 4 =>
          /\ Exists("secret", c.old["secret"])
          /\ \A r \in cloud : r.kind = "task" /\ r.id = c.refs["task"] =>
                \A k \in Kinds \ {"task"} : r.refs[k] = c.refs[k]
    /\ \A r \in cloud : IsUp(r) /\ r.refs["secret"] = c.old["secret"] =>
          /\ c.at <= 2 => r.id = c.old["task"]
          /\ c.at # 3
          /\ c.at >= 4 => r.id = c.refs["task"]

GoodUpdate(c) ==
    /\ mode = "public" /\ c.phase # "undo" /\ (IF c.phase = "work" THEN c.at <= 5 ELSE c.at = 6)
    /\ \A k \in Kinds \ {"task", "taskDef"} : c.refs[k] = c.old[k]
    /\ c.refs["tg"] = 0 /\ c.refs["rule"] = 0
    /\ Exists("secret", c.old["secret"]) =>
          \A r \in Things(c.tenant) : r.id \in {c.refs[r.kind], c.old[r.kind]} \/ Stale(r)
    /\ c.at = 6 => \A r \in Things(c.tenant) :
          r.id = c.refs[r.kind] \/ (Stale(r) /\ r.id # c.old["taskDef"])
    /\ \A r \in cloud : r.kind \in {"task", "taskDef"} /\ r.id = c.old[r.kind] =>
          Away(r) \/ Settled(r)
    /\ Replaces(c)

Good(c) ==
    /\ c.op = "provision" => GoodProvision(c)
    /\ c.op \in {"teardown", "control"} => GoodRead(c)
    /\ c.op = "update" => GoodUpdate(c)
    /\ c.op # "idle" /\ c.phase = "save" => c.seen = store

Kept == IInv /\ TypeOK /\ World /\ Books /\ \A p \in Procs : Good(call[p])

-----------------------------------------------------------------------------
(* What the invariant says of resources and calls. *)

\* A resource and what it names.
LEMMA ResourceIs ==
    ASSUME Kept, NEW r \in cloud
    PROVE  /\ r.kind \in Kinds /\ r.tenant \in Tenants
           /\ r.id \in Nat \ {0} /\ r.id <= born
           /\ \A k \in Kinds : r.refs[k] \in Nat /\ r.refs[k] <= born
           /\ born \in Nat /\ born + 1 \in Nat
<1>1. r \in WideResource /\ born \in Nat
  BY DEF Kept, IInv, Types
<1>2. r.id \in Nat \ {0} /\ r.tenant \in Tenants /\ r.kind \in Kinds /\ r.refs \in WideRefs
  BY <1>1 DEF WideResource
<1>3. \A k \in Kinds : r.refs[k] \in Nat
  BY <1>2 DEF WideRefs
<1>4. Claim(r.id, r.tenant) /\ \A k \in Kinds : Claim(r.refs[k], r.tenant)
  BY DEF Claim
<1>5. r.id <= born
  BY <1>2, <1>4 DEF Kept, IInv, Claimed
<1>6. \A k \in Kinds : r.refs[k] <= born
  BY <1>1, <1>2, <1>3, <1>4 DEF Kept, IInv, Claimed
<1>. QED  BY <1>1, <1>2, <1>3, <1>5, <1>6

\* What a call names.
LEMMA HeldIs ==
    ASSUME Kept, NEW p \in Procs, NEW c, c = call[p]
    PROVE  /\ c \in Call /\ Full(c) /\ c.tenant \in Tenants /\ c.phase \in Phases
           /\ c.op \in {"idle", "provision", "teardown", "control", "update"}
           /\ c.at \in Nat \ {0} /\ c.undo \in Seq(Entry) /\ Len(c.undo) \in Nat
           /\ c.refs \in WideRefs /\ c.old \in WideRefs
           /\ \A k \in Kinds : c.refs[k] \in Nat /\ c.refs[k] <= born
                               /\ c.old[k] \in Nat /\ c.old[k] <= born
           /\ \A r \in cloud, k \in Kinds :
                 r.id = c.refs[k] \/ r.id = c.old[k] => r.tenant = c.tenant
           /\ Good(c)
<1>1. TypeOK /\ IInv /\ Good(c)
  BY DEF Kept
<1>2. /\ c \in Call /\ Full(c) /\ c.tenant \in Tenants /\ c.phase \in Phases
      /\ c.op \in {"idle", "provision", "teardown", "control", "update"}
      /\ c.undo \in Seq(Entry)
  BY <1>1, CallTyped
<1>3. c.at \in Nat \ {0} /\ c.refs \in WideRefs /\ c.old \in WideRefs
  BY <1>1, CallIs, HoldsMine
<1>4. \A k \in Kinds : c.refs[k] \in Nat /\ c.old[k] \in Nat
  BY <1>3 DEF WideRefs
<1>5. \A k \in Kinds : Claim(c.refs[k], c.tenant) /\ Claim(c.old[k], c.tenant)
  BY DEF Claim
<1>6. \A k \in Kinds : c.refs[k] <= born /\ c.old[k] <= born
  BY <1>1, <1>2, <1>4, <1>5 DEF IInv, Claimed, Types
<1>7. ASSUME NEW r \in cloud, NEW k \in Kinds, r.id = c.refs[k] \/ r.id = c.old[k]
      PROVE  r.tenant = c.tenant
  <2>1. r.id \in Nat \ {0} /\ r.tenant \in Tenants
    BY ResourceIs
  <2>2. Claim(r.id, r.tenant) /\ Claim(r.id, c.tenant)
    BY <1>5, <1>7 DEF Claim
  <2>. QED  BY <1>1, <1>2, <2>1, <2>2 DEF IInv, Separate
<1>8. Len(c.undo) \in Nat
  BY <1>2, LenProperties
<1>. QED  BY <1>1, <1>2, <1>3, <1>4, <1>6, <1>7, <1>8

\* What is made of a resource is its tenant's.
LEMMA MadeOfOwn ==
    ASSUME Kept, NEW r \in cloud, NEW q \in cloud, NEW k \in Kinds, r.refs[k] = q.id
    PROVE  q.tenant = r.tenant
<1>1. q.id \in Nat \ {0} /\ q.tenant \in Tenants /\ r.tenant \in Tenants
  BY ResourceIs
<1>2. Claim(q.id, q.tenant) /\ Claim(q.id, r.tenant)
  BY DEF Claim
<1>. QED  BY <1>1, <1>2 DEF Kept, IInv, Separate

\* With one process.
LEMMA OneHand ==
    ASSUME NEW p, Procs = {p}
    PROVE  /\ \A r : Handy(r) <=> Hand(call[p], r)
           /\ \A t : Leaving(t) <=> (call[p].op = "teardown" /\ call[p].tenant = t)
  BY DEF Handy, Leaving

-----------------------------------------------------------------------------
(* Steps that make nothing. *)

\* The resources, when some of them go or are given up.
LEMMA WorldShrinks ==
    ASSUME Kept, cloud' \subseteq cloud, UNCHANGED <<mode, store>>,
           mode # "local" => \A r \in cloud' : IsUp(r)' => IsUp(r),
           \A i \in lost' : i <= born',
           \A r \in cloud' : r.kind = "rule" => Has("tg", r.refs["tg"], r.tenant)',
           \A r, q \in cloud' :
              r.kind = "rule" /\ r.id \in lost' \ lost /\ q.kind = "tg" /\ q.tenant = r.tenant
                 => q.id \in lost',
           lost \subseteq lost'
    PROVE  World'
<1>1. OneId'
  BY DEF Kept, World, OneId
<1>2. KindsOfMode'
  BY DEF Kept, World, KindsOfMode
<1>3. OneEach'
  BY DEF Kept, World, OneEach
<1>4. RulesWired'
  BY DEF Kept, World, RulesWired
<1>5. OneUp'
  BY DEF Kept, World, OneUp
<1>6. FullRecords'
  BY DEF Kept, World, FullRecords
<1>. QED  BY <1>1, <1>2, <1>3, <1>4, <1>5, <1>6 DEF World

\* The books, when some resources go: the call keeps in its hand what it had
\* there, or the record names it, and where a tenant's secret goes the call has
\* all that he has.
LEMMA BooksShrink ==
    ASSUME Kept, NEW p, Procs = {p}, NEW d, d = call'[p],
           cloud' \subseteq cloud, UNCHANGED <<mode, store>>,
           mode # "local" => \A r \in cloud' : IsUp(r)' => IsUp(r),
           \A r \in cloud' : Away(r) => Away(r)',
           \A r \in cloud' : Hand(call[p], r) => Hand(d, r) \/ Away(r)' \/ Settled(r),
           mode # "local" => \A t \in Tenants :
               NoSecret(t)' /\ (d.op = "teardown" => d.tenant # t) =>
                  \/ NoSecret(t) /\ (call[p].op = "teardown" => call[p].tenant # t)
                  \/ \A r \in Things(t)' : Hand(d, r),
           lost \subseteq lost'
    PROVE  Books'
<1>1. Accounted'
  <2>1. SUFFICES ASSUME NEW r \in cloud' PROVE Away(r)' \/ Recorded(r)' \/ Handy(r)'
    BY DEF Accounted
  <2>2. Away(r) \/ Recorded(r) \/ Hand(call[p], r)
    BY OneHand DEF Kept, Books, Accounted
  <2>3. Settled(r) => Recorded(r)
    BY DEF Settled
  <2>. QED  BY <2>2, <2>3 DEF Recorded, Handy
<1>2. \A t \in Tenants : Things(t)' \subseteq Things(t)
  BY DEF Things
<1>3. Keyed'
  <2>1. SUFFICES ASSUME mode # "local", NEW t \in Tenants, NoSecret(t)', ~Leaving(t)',
                        NEW r \in Things(t)'
                 PROVE  Handy(r)'
    BY DEF Keyed
  <2>2. d.op = "teardown" => d.tenant # t
    BY <2>1 DEF Leaving
  <2>3. CASE NoSecret(t) /\ (call[p].op = "teardown" => call[p].tenant # t)
    <3>1. Hand(call[p], r)
      BY <1>2, <2>1, <2>3, OneHand DEF Kept, Books, Keyed
    <3>2. ~Settled(r)
      BY <2>1, <2>3 DEF Settled, Things
    <3>. QED  BY <2>1, <3>1, <3>2 DEF Handy, Things
  <2>. QED  BY <2>1, <2>2, <2>3 DEF Handy
<1>4. Worn'
  <2>1. SUFFICES ASSUME mode = "public", NEW r \in cloud', IsUp(r)',
                        Exists("secret", r.refs["secret"])', NEW q \in Things(r.tenant)'
                 PROVE  q = r \/ q.id = r.refs[q.kind] \/ Stale(q)' \/ Handy(q)'
    BY DEF Worn
  <2>2. IsUp(r) /\ Exists("secret", r.refs["secret"]) /\ r \in cloud /\ q \in Things(r.tenant)
    BY <2>1, <1>2, ResourceIs DEF Exists
  <2>3. q = r \/ q.id = r.refs[q.kind] \/ Stale(q) \/ Hand(call[p], q)
    BY <2>1, <2>2, OneHand DEF Kept, Books, Worn
  <2>4. q \in cloud' /\ ~Away(q)' /\ q.tenant = r.tenant
    BY <2>1 DEF Things
  <2>5. Settled(q) => q = r \/ Stale(q)
    BY <2>2, <2>4 DEF Settled, Stale
  <2>6. Stale(q)' <=> Stale(q)
    BY DEF Stale, Recorded
  <2>. QED  BY <2>3, <2>4, <2>5, <2>6 DEF Handy
<1>. QED  BY <1>1, <1>3, <1>4 DEF Books

-----------------------------------------------------------------------------
(* Steps that make one resource. *)

\* What a step makes: n is new, and nothing else comes or, but for a container
\* that it replaces, goes.
Brings(n) ==
    /\ n \in WideResource /\ n.id = born + 1 /\ born' = born + 1
    /\ cloud' \subseteq cloud \cup {n} /\ n \in cloud'
    /\ mode # "local" => cloud \subseteq cloud' /\ halted' = halted
    /\ lost \subseteq lost' /\ lost' \subseteq lost \cup {n.id}
    /\ UNCHANGED <<mode, store, kept>>

\* What was there stays as it was.
LEMMA BringsNew ==
    ASSUME Kept, NEW n, Brings(n)
    PROVE  /\ n.kind \in Kinds /\ n.tenant \in Tenants /\ n.id \in Nat \ {0}
           /\ \A k \in Kinds : n.refs[k] \in Nat
           /\ \A r \in cloud : r.id # n.id /\ \A k \in Kinds : r.refs[k] # n.id
           /\ n.id \notin lost
           /\ \A r \in cloud : /\ Away(r) => Away(r)'
                               /\ mode # "local" => (IsUp(r)' <=> IsUp(r))
           /\ \A t \in Tenants : \A r \in Things(t)' : r = n \/ r \in Things(t)
           /\ mode # "local" => \A k, i : /\ Exists(k, i) => Exists(k, i)'
                                          /\ \A t : Has(k, i, t) => Has(k, i, t)'
<1>1. /\ n.kind \in Kinds /\ n.tenant \in Tenants /\ n.id \in Nat \ {0}
      /\ n.refs \in WideRefs
  BY DEF Brings, WideResource
<1>2. \A k \in Kinds : n.refs[k] \in Nat
  BY <1>1 DEF WideRefs
<1>3. \A r \in cloud : r.id # n.id /\ \A k \in Kinds : r.refs[k] # n.id
  BY ResourceIs DEF Brings
<1>4. n.id \notin lost
  <2>1. born \in Nat /\ \A i \in lost : i <= born
    BY DEF Kept, World, RulesWired, IInv, Types
  <2>. QED  BY <2>1 DEF Brings
<1>5. ASSUME NEW r \in cloud
      PROVE  /\ Away(r) => Away(r)'
             /\ mode # "local" => (IsUp(r)' <=> IsUp(r))
  BY DEF Away, IsUp, Brings
<1>6. \A t \in Tenants : \A r \in Things(t)' : r = n \/ r \in Things(t)
  BY <1>5 DEF Things, Brings
<1>7. mode # "local" => \A k, i : /\ Exists(k, i) => Exists(k, i)'
                                  /\ \A t : Has(k, i, t) => Has(k, i, t)'
  BY DEF Exists, Has, Brings
<1>. QED  BY <1>1, <1>2, <1>3, <1>4, <1>5, <1>6, <1>7

\* The resources, with a new one.
LEMMA WorldGrows ==
    ASSUME Kept, NEW n, Brings(n),
           mode = "local" => n.kind = "task" /\ \A k \in Kinds : n.refs[k] = 0,
           mode = "public" => n.kind # "tg" /\ n.kind # "rule",
           n.kind = "task" => \A k \in {"task", "tg", "rule"} : n.refs[k] = 0,
           n.kind \in {"secret", "tg"} =>
              \A r \in cloud : r.kind = n.kind => r.tenant # n.tenant,
           n.kind = "rule" => Has("tg", n.refs["tg"], n.tenant) /\ lost' = lost,
           mode = "public" /\ n.kind = "task" =>
              \A r \in cloud : IsUp(r) => r.refs["secret"] # n.refs["secret"]
    PROVE  World'
<1>. /\ n.kind \in Kinds /\ n.tenant \in Tenants /\ n.id \in Nat \ {0}
     /\ \A r \in cloud : r.id # n.id /\ n.id \notin lost
     /\ cloud' \subseteq cloud \cup {n} /\ UNCHANGED <<mode, store>>
     /\ \A r \in cloud : mode # "local" => (IsUp(r)' <=> IsUp(r))
  BY BringsNew DEF Brings
<1>1. OneId'
  BY DEF Kept, World, OneId
<1>2. KindsOfMode'
  BY DEF Kept, World, KindsOfMode
<1>3. OneEach'
  BY DEF Kept, World, OneEach
<1>4. RulesWired'
  <2>1. \A i \in lost' : i <= born'
    <3>1. born \in Nat /\ \A i \in lost : i <= born /\ i \in Nat
      BY DEF Kept, World, RulesWired, IInv, Types, TypeOK, Ids
    <3>. QED  BY <3>1 DEF Brings
  <2>2. ASSUME NEW r \in cloud', r.kind = "rule"
        PROVE  /\ Has("tg", r.refs["tg"], r.tenant)'
               /\ r.id \in lost' =>
                    \A q \in cloud' : q.kind = "tg" /\ q.tenant = r.tenant => q.id \in lost'
    <3>1. mode # "local"
      BY <2>2 DEF Kept, World, KindsOfMode
    <3>2. Has("tg", r.refs["tg"], r.tenant)
      BY <2>2 DEF Kept, World, RulesWired
    <3>3. Has("tg", r.refs["tg"], r.tenant)'
      BY <3>1, <3>2, BringsNew
    <3>4. ASSUME r.id \in lost', NEW q \in cloud', q.kind = "tg", q.tenant = r.tenant
          PROVE  q.id \in lost'
      <4>1. q # n
        BY <3>2, <3>4 DEF Has
      <4>2. r # n
        BY <2>2, <3>4 DEF Brings
      <4>3. r \in cloud /\ q \in cloud /\ r.id \in lost
        BY <3>4, <4>1, <4>2 DEF Brings
      <4>. QED  BY <2>2, <3>4, <4>3 DEF Kept, World, RulesWired, Brings
    <3>. QED  BY <3>3, <3>4
  <2>. QED  BY <2>1, <2>2 DEF RulesWired
<1>5. OneUp'
  BY DEF Kept, World, OneUp, IsUp
<1>6. FullRecords'
  BY DEF Kept, World, FullRecords
<1>. QED  BY <1>1, <1>2, <1>3, <1>4, <1>5, <1>6 DEF World

\* The books, with a new resource: the call has it in its hand, or gave it up.
LEMMA BooksGrow ==
    ASSUME Kept, NEW p, Procs = {p}, NEW d, d = call'[p], NEW n, Brings(n),
           \A r \in cloud : Hand(call[p], r) => Hand(d, r),
           Hand(d, n) \/ n.id \in lost',
           call[p].op # "teardown",
           mode = "public" /\ n.kind = "task" /\ IsUp(n)' =>
              \A q \in Things(n.tenant) : q.id = n.refs[q.kind] \/ Stale(q) \/ Hand(d, q),
           mode = "local" => \A k \in Kinds : n.refs[k] = 0
    PROVE  Books'
<1>0. /\ n.kind \in Kinds /\ n.tenant \in Tenants /\ n.id \in Nat \ {0}
      /\ cloud' \subseteq cloud \cup {n} /\ UNCHANGED <<mode, store>>
      /\ lost \subseteq lost'
  BY BringsNew DEF Brings
<1>1. Accounted'
  <2>1. SUFFICES ASSUME NEW r \in cloud' PROVE Away(r)' \/ Recorded(r)' \/ Handy(r)'
    BY DEF Accounted
  <2>2. CASE r = n
    BY <2>2 DEF Away, Handy
  <2>3. CASE r \in cloud
    <3>1. Away(r) \/ Recorded(r) \/ Hand(call[p], r)
      BY <2>3, OneHand DEF Kept, Books, Accounted
    <3>. QED  BY <1>0, <2>3, <3>1, BringsNew DEF Recorded, Handy
  <2>. QED  BY <1>0, <2>2, <2>3
<1>3. Keyed'
  <2>1. SUFFICES ASSUME mode # "local", NEW t \in Tenants, NoSecret(t)', NEW r \in Things(t)'
                 PROVE  Handy(r)'
    BY <1>0 DEF Keyed
  <2>2. CASE r = n
    BY <2>1, <2>2 DEF Handy, Things, Away
  <2>3. CASE r \in Things(t)
    <3>1. NoSecret(t)
      BY <2>1 DEF NoSecret, Brings
    <3>2. ~Leaving(t)
      BY OneHand
    <3>3. Hand(call[p], r)
      BY <2>1, <2>3, <3>1, <3>2, OneHand DEF Kept, Books, Keyed
    <3>. QED  BY <2>3, <3>3 DEF Handy, Things
  <2>. QED  BY <2>1, <2>2, <2>3, BringsNew
<1>4. Worn'
  <2>1. SUFFICES ASSUME mode = "public", NEW r \in cloud', IsUp(r)',
                        Exists("secret", r.refs["secret"])', NEW q \in Things(r.tenant)'
                 PROVE  q = r \/ q.id = r.refs[q.kind] \/ Stale(q)' \/ Handy(q)'
    BY <1>0 DEF Worn
  <2>0. Stale(q)' <=> Stale(q)
    BY <1>0 DEF Stale, Recorded
  <2>2. CASE q = n
    BY <2>1, <2>2 DEF Handy, Things, Away
  <2>3. CASE q # n /\ r = n
    <3>1. q \in Things(n.tenant) /\ n.kind = "task"
      BY <1>0, <2>1, <2>3, BringsNew DEF IsUp
    <3>. QED  BY <2>0, <2>1, <2>3, <3>1 DEF Handy
  <2>4. CASE q # n /\ r # n
    <3>1. r \in cloud /\ r.tenant \in Tenants
      BY <1>0, <2>1, <2>4, ResourceIs
    <3>2. q \in Things(r.tenant) /\ IsUp(r)
      BY <2>1, <2>4, <3>1, BringsNew
    <3>3. Exists("secret", r.refs["secret"])
      <4>1. r.refs["secret"] # n.id
        BY <3>1, BringsNew DEF Kinds
      <4>. QED  BY <1>0, <2>1, <4>1 DEF Exists
    <3>4. q = r \/ q.id = r.refs[q.kind] \/ Stale(q) \/ Hand(call[p], q)
      BY <2>1, <3>1, <3>2, <3>3, OneHand DEF Kept, Books, Worn
    <3>. QED  BY <2>0, <3>2, <3>4 DEF Handy, Things
  <2>. QED  BY <2>2, <2>3, <2>4
<1>. QED  BY <1>1, <1>3, <1>4 DEF Books

-----------------------------------------------------------------------------
(* What all steps share. *)

\* The step of the only process, or of the cloud.
LEMMA KeptNext ==
    ASSUME Kept, OneByOne, NEW p, Procs = {p}, Next,
           World', Books', NEW d, d = call'[p], Good(d)'
    PROVE  Kept'
<1>1. OwnNames
  BY DEF OneByOne
<1>2. IInv'
  BY <1>1, StepIInv DEF Kept
<1>3. TypeOK'
  BY StepTyped DEF Kept
<1>. QED  BY <1>2, <1>3 DEF Kept

\* A step that changes the call alone, or what is given up, or that a task stops at.
LEMMA Still ==
    ASSUME Kept, NEW p, Procs = {p}, NEW c, c = call[p], NEW d, d = call'[p],
           UNCHANGED <<cloud, born, mode, store>>, mode # "local" => halted \subseteq halted',
           kept \subseteq kept', lost \subseteq lost',
           \A i \in lost' : i <= born,
           \A r, q \in cloud :
              r.kind = "rule" /\ r.id \in lost' \ lost /\ q.kind = "tg" /\ q.tenant = r.tenant
                 => q.id \in lost',
           \A r \in cloud : Hand(c, r) => Hand(d, r) \/ Away(r)' \/ Settled(r),
           mode # "local" /\ c.op = "teardown" /\ NoSecret(c.tenant) =>
               \/ d.op = "teardown" /\ d.tenant = c.tenant
               \/ Things(c.tenant)' = {}
    PROVE  /\ World' /\ Books'
           /\ \A r \in cloud : Away(r) => Away(r)'
           /\ \A t : Things(t)' \subseteq Things(t)
<1>1. \A r \in cloud : Away(r) => Away(r)'
  BY DEF Away
<1>2. \A t : Things(t)' \subseteq Things(t)
  BY <1>1 DEF Things
<1>3. mode # "local" => \A r \in cloud' : IsUp(r)' => IsUp(r)
  BY DEF IsUp
<1>4. \A r \in cloud' : r.kind = "rule" => Has("tg", r.refs["tg"], r.tenant)'
  BY DEF Kept, World, RulesWired, Has
<1>5. World'
  BY <1>3, <1>4, WorldShrinks
<1>6. \A r \in cloud' : Hand(c, r) => Hand(d, r) \/ Away(r)' \/ Settled(r)
  OBVIOUS
<1>7. \A t \in Tenants : NoSecret(t)' <=> NoSecret(t)
  BY DEF NoSecret
<1>8. mode # "local" => \A t \in Tenants :
         NoSecret(t)' /\ (d.op = "teardown" => d.tenant # t) =>
            \/ NoSecret(t) /\ (c.op = "teardown" => c.tenant # t)
            \/ \A r \in Things(t)' : Hand(d, r)
  BY <1>7
<1>9. Books'
  BY <1>1, <1>3, <1>6, <1>8, BooksShrink
<1>. QED  BY <1>1, <1>2, <1>5, <1>9

\* A step that changes the call alone.
LEMMA Quiet ==
    ASSUME Kept, NEW p, Procs = {p}, NEW c, c = call[p], NEW d, d = call'[p],
           UNCHANGED <<cloud, born, mode, store, halted, kept, lost>>,
           \A r \in cloud : Hand(c, r) => Hand(d, r) \/ r.id \in lost,
           mode # "local" /\ c.op = "teardown" /\ NoSecret(c.tenant) =>
               \/ d.op = "teardown" /\ d.tenant = c.tenant
               \/ Things(c.tenant) = {}
    PROVE  World' /\ Books'
<1>1. \A i \in lost' : i <= born
  BY DEF Kept, World, RulesWired
<1>2. \A r \in cloud : Away(r)' <=> Away(r)
  BY DEF Away
<1>3. Things(c.tenant)' = Things(c.tenant)
  BY <1>2 DEF Things
<1>4. /\ UNCHANGED <<cloud, born, mode, store>> /\ halted \subseteq halted'
      /\ kept \subseteq kept' /\ lost \subseteq lost' /\ lost' = lost
  OBVIOUS
<1>5. \A r \in cloud : Hand(c, r) => Hand(d, r) \/ Away(r)' \/ Settled(r)
  BY <1>4 DEF Away
<1>6. mode # "local" /\ c.op = "teardown" /\ NoSecret(c.tenant) =>
         (d.op = "teardown" /\ d.tenant = c.tenant) \/ Things(c.tenant)' = {}
  BY <1>3
<1>7. \A r, q \in cloud :
              r.kind = "rule" /\ r.id \in lost' \ lost /\ q.kind = "tg" /\ q.tenant = r.tenant
                 => q.id \in lost'
  BY <1>4
<1>. QED  BY <1>1, <1>4, <1>5, <1>6, <1>7, Still

\* A process at rest has nothing in its hand.
LEMMA AtRest ==
    ASSUME NEW c, c.op \notin {"provision", "update"}
    PROVE  /\ \A r : ~Hand(c, r)
           /\ c.op = "idle" => Good(c) /\ Good(c)'
  BY DEF Hand, Good

\* A provision that makes nothing.
LEMMA ProvisionShrinks ==
    ASSUME Kept, NEW p \in Procs, NEW c, c = call[p], c.op = "provision",
           NEW d, d.op = "provision", d.tenant = c.tenant, d.refs = c.refs, d.old = c.old,
           cloud' \subseteq cloud, UNCHANGED mode,
           mode # "local" => \A r \in cloud' : IsUp(r)' => IsUp(r),
           \A r \in cloud' : Away(r) => Away(r)',
           \A r \in Things(c.tenant)' : Hand(c, r) => Hand(d, r),
           StackOK(d), HasMade(d)'
    PROVE  GoodProvision(d)'
<1>0. GoodProvision(c)
  BY DEF Kept, Good
<1>1. AllInHand(d)'
  <2>1. Things(c.tenant)' \subseteq Things(c.tenant)
    BY DEF Things
  <2>. QED  BY <1>0, <2>1 DEF GoodProvision, AllInHand, TookName
<1>2. OwnTask(d)'
  BY <1>0 DEF GoodProvision, OwnTask
<1>3. DataFirst(d)'
  BY <1>0 DEF GoodProvision, DataFirst
<1>4. StackOK(d)'
  BY DEF StackOK
<1>. QED  BY <1>0, <1>1, <1>2, <1>3, <1>4 DEF GoodProvision

\* The steps of provisionAgent.
LEMMA CreatePlaces ==
    ASSUME NEW a \in Nat \ {0}, a <= Len(CreateSteps)
    PROVE  /\ a <= 11
           /\ \A k \in Kinds : CreateAt(k) = a <=> CreateSteps[a] = k
           /\ CreateSteps[a] \notin Kinds => a \in {6, 7, 10, 11}
           /\ (a = 10) <=> (CreateSteps[a] = "target")
           /\ Len(CreateSteps) = 11
<1>1. Len(CreateSteps) = 11
  BY DEF CreateSteps
<1>2. a \in {1, 2, 3, 4, 5, 6, 7, 8, 9, 10, 11}
  BY <1>1
<1>. QED  BY <1>1, <1>2 DEF CreateSteps, CreateAt, Kinds

-----------------------------------------------------------------------------
(* The calls begin and end. *)

\* The process's new call.
LEMMA SetIs ==
    ASSUME Kept, NEW p \in Procs, NEW d, Set(p, d)
    PROVE  call'[p] = d /\ UNCHANGED <<mode, backend>>
<1>1. call = [q \in Procs |-> call[q]]
  BY DEF Kept, IInv, Types
<1>. QED  BY <1>1 DEF Set, settings

\* A process at rest, field by field.
LEMMA NoCallFields ==
    ASSUME NEW t \in Tenants, NEW b, b = NoCall(t)
    PROVE  /\ Full(b) /\ b.op = "idle" /\ b.tenant = t /\ b.phase = "work" /\ b.at = 1
           /\ b.refs = NoRef /\ b.old = NoRef /\ b.undo = << >> /\ ~b.running
           /\ \A k \in Kinds : NoRef[k] = 0
<1>1. Full(b)
  BY NoCallIsFresh DEF Fresh
<1>. QED  BY <1>1 DEF NoCall, NoRef

\* The only process is at rest when it begins.
LEMMA BeginsCall ==
    ASSUME Kept, NEW p, Procs = {p}, NEW t \in Tenants, NEW e, Full(e),
           NEW op \in {"provision", "teardown", "control", "update"},
           Begin(p, op, t, e), NEW d, d = call'[p]
    PROVE  /\ Full(d) /\ d.op = op /\ d.tenant = t /\ d.phase = e.phase
           /\ d.at = e.at /\ d.refs = e.refs /\ d.old = e.old /\ d.undo = e.undo
           /\ UNCHANGED <<cloud, born, mode, store, halted, kept, lost>>
           /\ call[p].op = "idle" /\ World' /\ Books'
           /\ \A u : ~Leaving(u) /\ \A r : ~Handy(r)
           /\ \A u : Things(u)' = Things(u)
<1>0. PICK x : x = [e EXCEPT !.op = op, !.tenant = t]
  OBVIOUS
<1>1. Set(p, x) /\ call[p].op = "idle" /\ UNCHANGED <<cloud, born, store, halted, kept, lost>>
  BY <1>0 DEF Begin, world, history
<1>2. d = x /\ UNCHANGED mode
  BY <1>1, SetIs
<1>3. Full(d) /\ d.op = op /\ d.tenant = t /\ d.phase = e.phase
      /\ d.at = e.at /\ d.refs = e.refs /\ d.old = e.old /\ d.undo = e.undo
  BY <1>0, <1>2 DEF Full
<1>4. \A r : ~Hand(call[p], r)
  BY <1>1, AtRest
<1>5. World' /\ Books'
  BY <1>1, <1>2, <1>4, Quiet
<1>6. \A r \in cloud : Away(r)' <=> Away(r)
  BY <1>1, <1>2 DEF Away
<1>7. \A u : Things(u)' = Things(u)
  BY <1>1, <1>6 DEF Things
<1>8. \A u : ~Leaving(u) /\ \A r : ~Handy(r)
  BY <1>1, <1>4, OneHand
<1>. QED  BY <1>1, <1>2, <1>3, <1>5, <1>7, <1>8

\* A provision begins with nothing,
LEMMA ProvisionKept ==
    ASSUME Kept, OneByOne, NEW p, Procs = {p}, Next, NEW t \in Tenants, Provision(p, t)
    PROVE  Kept'
<1>1. PICK b : b = NoCall(t)
  OBVIOUS
<1>2. PICK d : d = call'[p]
  OBVIOUS
<1>3. /\ Full(b) /\ b.phase = "work" /\ b.at = 1 /\ b.undo = << >>
      /\ b.refs = NoRef /\ b.old = NoRef /\ \A k \in Kinds : NoRef[k] = 0
  BY <1>1, NoCallFields
<1>4. /\ d = call'[p] /\ d.op = "provision" /\ d.phase = "work" /\ d.at = 1 /\ d.undo = << >>
      /\ d.refs = NoRef /\ d.old = NoRef /\ World' /\ Books'
  BY <1>1, <1>2, <1>3, BeginsCall DEF Provision
<1>5. GoodProvision(d)'
  <2>1. StackOK(d)'
    BY <1>4 DEF StackOK, StackAt
  <2>2. HasMade(d)'
    BY <1>3, <1>4 DEF HasMade, CreateAt, Kinds
  <2>3. AllInHand(d)' /\ OwnTask(d)' /\ DataFirst(d)'
    BY <1>3, <1>4 DEF AllInHand, TookName, OwnTask, DataFirst, Kinds
  <2>. QED  BY <1>3, <1>4, <2>1, <2>2, <2>3 DEF GoodProvision
<1>. QED  BY <1>4, <1>5, KeptNext DEF Good

\* a teardown and a control with the record,
LEMMA ReadKept ==
    ASSUME Kept, OneByOne, NEW p, Procs = {p}, Next, NEW t \in Tenants,
           NEW op \in {"teardown", "control"}, NEW f, Read(p, op, t, f),
           op = "control" => mode = "local"
    PROVE  Kept'
<1>1. PICK b : b = NoCall(t)
  OBVIOUS
<1>2. PICK e : e = [b EXCEPT !.refs = store[t].refs, !.old = store[t].refs,
                             !.running = store[t].running, !.data = f]
  OBVIOUS
<1>3. PICK d : d = call'[p]
  OBVIOUS
<1>4. Full(b) /\ b.phase = "work" /\ b.at = 1
  BY <1>1, NoCallFields
<1>5. Full(e) /\ e.phase = "work" /\ e.at = 1 /\ e.refs = store[t].refs
  BY <1>2, <1>4 DEF Full
<1>6. Begin(p, op, t, e) /\ store[t] # None
  BY <1>1, <1>2 DEF Read
<1>7. /\ d = call'[p] /\ d.op = op /\ d.tenant = t /\ d.phase = "work" /\ d.at = 1
      /\ d.refs = store[t].refs /\ World' /\ Books'
      /\ UNCHANGED <<cloud, mode, store>> /\ ~Leaving(t)
      /\ \A r : ~Handy(r)
      /\ Things(t)' = Things(t)
  BY <1>3, <1>5, <1>6, BeginsCall
<1>8. \A r \in Things(t) : TeardownAt(r.kind) >= 1
  BY DEF TeardownAt
<1>9. mode # "local" /\ NoSecret(t) => Things(t) = {}
  BY <1>7 DEF Kept, Books, Keyed
<1>10. GoodRead(d)'
  BY <1>6, <1>7, <1>8, <1>9 DEF GoodRead, NoSecret
<1>. QED  BY <1>7, <1>10, KeptNext DEF Good

\* and an update with what the running task was made of, which is all that the
\* tenant has if his secret is there.
LEMMA UpdateKept ==
    ASSUME Kept, OneByOne, NEW p, Procs = {p}, Next, NEW t \in Tenants, Update(p, t)
    PROVE  Kept'
<1>1. PICK b : b = NoCall(t)
  OBVIOUS
<1>2. PICK x \in Up(t) :
         Begin(p, "update", t, [b EXCEPT !.old = [x.refs EXCEPT !["task"] = x.id],
                                         !.refs = [x.refs EXCEPT !["task"] = x.id]])
  BY <1>1 DEF Update
<1>3. PICK refs : refs = [x.refs EXCEPT !["task"] = x.id]
  OBVIOUS
<1>4. PICK e : e = [b EXCEPT !.old = refs, !.refs = refs]
  OBVIOUS
<1>5. PICK d : d = call'[p]
  OBVIOUS
<1>6. x \in cloud /\ x.tenant = t /\ IsUp(x) /\ mode = "public" /\ x.kind = "task"
  BY DEF Up, Of, IsUp, Update
<1>7. refs["task"] = x.id /\ \A k \in Kinds \ {"task"} : refs[k] = x.refs[k]
  <2>1. x.refs \in WideRefs
    BY <1>6 DEF Kept, IInv, Types, WideResource
  <2>. QED  BY <1>3, <2>1 DEF WideRefs, Kinds
<1>8. Full(b) /\ b.phase = "work" /\ b.at = 1
  BY <1>1, NoCallFields
<1>9. Full(e) /\ e.phase = "work" /\ e.at = 1 /\ e.refs = refs /\ e.old = refs
  BY <1>4, <1>8 DEF Full
<1>10. Begin(p, "update", t, e)
  BY <1>2, <1>3, <1>4
<1>11. /\ d = call'[p] /\ d.op = "update" /\ d.tenant = t /\ d.phase = "work" /\ d.at = 1
       /\ d.refs = refs /\ d.old = refs /\ World' /\ Books'
       /\ UNCHANGED <<cloud, mode, store, halted>>
       /\ \A u : ~Leaving(u)
       /\ \A r : ~Handy(r)
       /\ Things(t)' = Things(t)
  BY <1>5, <1>9, <1>10, BeginsCall
<1>12. x.refs["task"] = 0 /\ x.refs["tg"] = 0 /\ x.refs["rule"] = 0
  BY <1>6 DEF Kept, World, KindsOfMode
<1>13. ASSUME Exists("secret", x.refs["secret"]), NEW r \in Things(t)
       PROVE  r.id = refs[r.kind] \/ Stale(r)
  <2>1. r = x \/ r.id = x.refs[r.kind] \/ Stale(r)
    BY <1>6, <1>11, <1>13 DEF Kept, Books, Worn
  <2>2. r \in cloud /\ r.kind \in Kinds /\ r.id # 0
    BY ResourceIs DEF Things
  <2>. QED  BY <1>6, <1>7, <1>12, <2>1, <2>2
<1>14. \A r \in cloud : IsUp(r) /\ r.refs["secret"] = x.refs["secret"] => r.id = refs["task"]
  BY <1>6, <1>7 DEF Kept, World, OneUp
<1>15. refs["secret"] = x.refs["secret"] /\ refs["tg"] = 0 /\ refs["rule"] = 0
  BY <1>7, <1>12 DEF Kinds
<1>16. Replaces(d)'
  BY <1>11, <1>14, <1>15 DEF Replaces, IsUp
<1>17. ASSUME NEW r \in cloud, r.kind \in {"task", "taskDef"}, ~Away(r)
       PROVE  Settled(r)
  <2>1. r \in Things(r.tenant) /\ Recorded(r) /\ ~Handy(r) /\ r.id # 0 /\ r.tenant \in Tenants
    BY <1>11, <1>17, ResourceIs DEF Kept, Books, Accounted, Things
  <2>2. ~NoSecret(r.tenant)
    BY <1>6, <1>11, <2>1 DEF Kept, Books, Keyed
  <2>3. ASSUME r.kind = "task", NEW y \in cloud,
               IsUp(y), y.tenant = r.tenant, Exists("secret", y.refs["secret"])
        PROVE  y = r
    <3>1. r = y \/ r.id = y.refs["task"]
      BY <1>6, <1>11, <2>1, <2>3 DEF Kept, Books, Worn, Stale
    <3>2. y.refs["task"] = 0
      BY <2>3 DEF Kept, World, KindsOfMode, IsUp
    <3>. QED  BY <2>1, <3>1, <3>2
  <2>. QED  BY <1>17, <2>1, <2>2, <2>3 DEF Settled
<1>18. UNCHANGED <<kept, lost>> /\ \A r \in cloud : (Away(r)' <=> Away(r)) /\ (Settled(r)' <=> Settled(r))
  BY <1>5, <1>9, <1>10, <1>11, BeginsCall DEF Away, Settled, Recorded, NoSecret, IsUp, Exists
<1>19. \A r \in Things(t) : Stale(r)' <=> Stale(r)
  BY <1>11 DEF Stale, Recorded
<1>20. GoodUpdate(d)'
  BY <1>6, <1>11, <1>13, <1>15, <1>16, <1>17, <1>18, <1>19 DEF GoodUpdate, Exists
<1>. QED  BY <1>11, <1>20, KeptNext DEF Good

\* Whatever call begins.
LEMMA BeginCallKept ==
    ASSUME Kept, OneByOne, NEW p, Procs = {p}, Next, BeginCall(p)
    PROVE  Kept'
  BY ProvisionKept, ReadKept, UpdateKept DEF BeginCall

-----------------------------------------------------------------------------
(* Calls that end with nothing stored, and the read of the store. *)

\* A call that ends.
LEMMA QuitIs ==
    ASSUME Kept, NEW p \in Procs, Quit(p), NEW d, d = call'[p]
    PROVE  d.op = "idle" /\ UNCHANGED <<mode, backend>> /\ Good(d)' /\ \A r : ~Hand(d, r)
<1>1. PICK b : b = NoCall(call[p].tenant)
  OBVIOUS
<1>2. b.op = "idle"
  BY <1>1, HeldIs, NoCallFields
<1>3. d = b /\ UNCHANGED <<mode, backend>>
  BY <1>1, SetIs DEF Quit
<1>. QED  BY <1>2, <1>3, AtRest

\* A tenant whose agent is torn down has only what his record names.
LEMMA LeaversRecorded ==
    ASSUME Kept, NEW p, Procs = {p}, NEW c, c = call[p], c.op = "teardown",
           NEW r \in Things(c.tenant)
    PROVE  /\ r \in cloud /\ r.kind \in Kinds /\ r.id = c.refs[r.kind] /\ r.id # 0
           /\ TeardownAt(r.kind) >= c.at
<1>1. r \in cloud /\ r.tenant = c.tenant /\ ~Away(r)
  BY DEF Things
<1>2. GoodRead(c)
  BY HeldIs DEF Good
<1>3. Recorded(r)
  BY <1>1, AtRest, OneHand DEF Kept, Books, Accounted
<1>. QED  BY <1>1, <1>2, <1>3, ResourceIs DEF Recorded, GoodRead

\* What a call gives up, operation by operation.
LEMMA GivenUpIs ==
    ASSUME NEW c
    PROVE  /\ c.op = "provision" => \A i : i \in GivenUp(c) <=> \E k \in Kinds : i = c.refs[k]
           /\ c.op = "update" => \A i : i \in GivenUp(c) <=>
                 \E k \in {"task", "taskDef"} : i = c.refs[k] /\ c.refs[k] # c.old[k]
           /\ c.op \notin {"provision", "update"} => GivenUp(c) = {}
<1>1. c.op = "provision" => GivenUp(c) = {c.refs[k] : k \in Kinds}
  BY DEF GivenUp
<1>2. c.op = "update" =>
         GivenUp(c) = {c.refs[k] : k \in {j \in {"task", "taskDef"} : c.refs[j] # c.old[j]}}
  BY DEF GivenUp
<1>3. c.op \notin {"provision", "update"} => GivenUp(c) = {}
  BY DEF GivenUp
<1>. QED  BY <1>1, <1>2, <1>3

\* A call that gives up a rule gives up its target group.
LEMMA GroupsGivenUp ==
    ASSUME Kept, NEW p, Procs = {p}, NEW c, c = call[p],
           NEW r \in cloud, NEW q \in cloud, r.kind = "rule", r.id \in GivenUp(c), r.id \notin lost,
           q.kind = "tg", q.tenant = r.tenant
    PROVE  q.id \in lost \cup GivenUp(c)
<1>1. mode = "alb"
  BY DEF Kept, World, KindsOfMode, IInv, Types
<1>2. c.op = "provision"
  BY <1>1, HeldIs, GivenUpIs DEF Good, GoodUpdate
<1>3. PICK k \in Kinds : r.id = c.refs[k]
  BY <1>2, GivenUpIs
<1>4. r.tenant = c.tenant /\ r.id # 0
  BY <1>3, HeldIs, ResourceIs
<1>5. SUFFICES ASSUME q.id \notin lost PROVE q.id = c.refs["tg"]
  BY <1>2, GivenUpIs DEF Kinds
<1>6. q \in Things(c.tenant)
  BY <1>4, <1>5 DEF Things, Away
<1>7. GoodProvision(c)
  BY <1>2, HeldIs DEF Good
<1>8. CASE c.refs["secret"] # 0
  BY <1>1, <1>2, <1>6, <1>7, <1>8 DEF GoodProvision, AllInHand, TookName, Hand
<1>9. CASE c.refs["secret"] = 0
  <2>1. r.id = c.refs["accessPoint"]
    BY <1>1, <1>3, <1>4, <1>7, <1>9 DEF GoodProvision, DataFirst
  <2>. QED  BY <1>1, <1>4, <1>7, <1>9, <2>1 DEF GoodProvision, DataFirst
<1>. QED  BY <1>8, <1>9

\* A call that ends with nothing stored.  The record of a teardown names what
\* is left of the agent, but for the data when they are all that is left; what
\* an update has replaced the record names, too.
LEMMA GiveUpKept ==
    ASSUME Kept, OneByOne, NEW p, Procs = {p}, Next, GiveUp(p), call[p].op # "idle",
           UNCHANGED <<cloud, halted, born, store>>
    PROVE  Kept'
<1>1. PICK c : c = call[p]
  OBVIOUS
<1>2. PICK d : d = call'[p]
  OBVIOUS
<1>3. lost' = lost \cup GivenUp(c) /\ kept \subseteq kept' /\ Quit(p)
  BY <1>1 DEF GiveUp
<1>4. d.op = "idle" /\ UNCHANGED mode /\ Good(d)'
  BY <1>2, <1>3, QuitIs
<1>5. \A i \in lost' : i <= born
  <2>1. \A i \in lost : i <= born
    BY DEF Kept, World, RulesWired
  <2>2. \A k \in Kinds : c.refs[k] <= born
    BY <1>1, HeldIs
  <2>3. ASSUME NEW i \in GivenUp(c) PROVE \E k \in Kinds : i = c.refs[k]
    BY <2>3, GivenUpIs DEF Kinds
  <2>. QED  BY <1>3, <2>1, <2>2, <2>3
<1>6. \A r, q \in cloud :
         r.kind = "rule" /\ r.id \in lost' \ lost /\ q.kind = "tg" /\ q.tenant = r.tenant
            => q.id \in lost'
  BY <1>1, <1>3, GroupsGivenUp
<1>7. ASSUME NEW r \in cloud, Hand(c, r), r.id \notin lost'
      PROVE  Away(r) \/ Settled(r)
  <2>1. r.id \notin GivenUp(c) /\ r.kind \in Kinds
    BY <1>3, <1>7, ResourceIs
  <2>2. c.op = "update"
    BY <1>7, <2>1, GivenUpIs DEF Hand
  <2>3. r.kind \in {"task", "taskDef"} /\ r.id = c.old[r.kind]
    BY <1>7, <2>1, <2>2, GivenUpIs DEF Hand
  <2>. QED  BY <1>1, <2>2, <2>3, HeldIs DEF Good, GoodUpdate
<1>8. ASSUME mode # "local", c.op = "teardown", NoSecret(c.tenant), NEW r \in Things(c.tenant)'
      PROVE  FALSE
  <2>1. r \in Things(c.tenant) /\ ~Away(r)'
    BY <1>3, <1>4, <1>8 DEF Things, Away
  <2>2. c.at \in Nat \ {0} /\ GoodRead(c)
    BY <1>1, <1>8, HeldIs DEF Good
  <2>3. r.kind \in Kinds /\ r.id = c.refs[r.kind] /\ TeardownAt(r.kind) >= c.at
    BY <1>1, <1>8, <2>1, LeaversRecorded
  <2>4. c.at = 8 /\ c.phase = "work" /\ r.kind = "accessPoint"
    BY <1>8, <2>1, <2>2, <2>3 DEF GoodRead, TeardownAt, Kinds
  <2>5. r.id \in DataLeft(p)
    BY <1>1, <1>8, <2>3, <2>4 DEF DataLeft, TearingDown, Goes, TeardownStep, TeardownSteps
  <2>. QED  BY <2>1, <2>4, <2>5 DEF Away, GiveUp
<1>9. \A r \in cloud : Hand(c, r) => Hand(d, r) \/ Away(r)' \/ Settled(r)
  BY <1>3, <1>4, <1>7 DEF Away
<1>10. World' /\ Books'
  BY <1>1, <1>2, <1>3, <1>4, <1>5, <1>6, <1>8, <1>9, Still
<1>. QED  BY <1>2, <1>4, <1>10, KeptNext

\* A rollback that has undone its stack.
LEMMA UndoneKept ==
    ASSUME Kept, OneByOne, NEW p, Procs = {p}, Next, Undone(p)
    PROVE  Kept'
<1>1. PICK c : c = call[p]
  OBVIOUS
<1>2. PICK d : d = call'[p]
  OBVIOUS
<1>3. /\ Quit(p) /\ UNCHANGED <<cloud, halted, born, kept, lost, store>>
      /\ c.op = "provision" /\ c.phase = "undo" /\ Len(c.undo) = 0
  BY <1>1 DEF Undone, world, history, Goes
<1>4. d.op = "idle" /\ UNCHANGED mode /\ Good(d)'
  BY <1>2, <1>3, QuitIs
<1>5. \A r : ~Hand(c, r)
  BY <1>3 DEF Hand, UndoAt
<1>6. World' /\ Books'
  BY <1>1, <1>2, <1>3, <1>4, <1>5, Quiet
<1>. QED  BY <1>2, <1>4, <1>6, KeptNext

-----------------------------------------------------------------------------
(* Steps of a call that change nothing but its place. *)

\* A call that goes on with what it has.
LEMMA PlaceKept ==
    ASSUME Kept, OneByOne, NEW p, Procs = {p}, Next, NEW c, c = call[p], NEW d, d = call'[p],
           d.op = c.op, d.tenant = c.tenant, d.refs = c.refs, d.old = c.old,
           c.phase # "undo", d.phase # "undo",
           UNCHANGED <<cloud, born, mode, store, halted, kept, lost>>,
           Good(d)
    PROVE  Kept'
<1>1. \A r \in cloud : Hand(c, r) => Hand(d, r)
  BY DEF Hand
<1>2. World' /\ Books'
  BY <1>1, Quiet
<1>3. Things(d.tenant)' = Things(d.tenant)
  <2>1. \A r \in cloud : Away(r)' <=> Away(r)
    BY DEF Away
  <2>. QED  BY <2>1 DEF Things
<1>4. \A k, i, t : (Has(k, i, t)' <=> Has(k, i, t)) /\ (Exists(k, i)' <=> Exists(k, i))
  BY DEF Has, Exists
<1>5. \A r \in cloud : IsUp(r)' <=> IsUp(r)
  BY DEF IsUp
<1>6. \A t : NoSecret(t)' <=> NoSecret(t)
  BY DEF NoSecret
<1>7. \A k \in Kinds : Real(k)' <=> Real(k)
  BY DEF Real
<1>8. GoodProvision(d) => GoodProvision(d)'
  <2>1. StackOK(d)' <=> StackOK(d)
    BY DEF StackOK
  <2>2. HasMade(d) => HasMade(d)'
    BY <1>4, <1>7 DEF HasMade
  <2>3. AllInHand(d) => AllInHand(d)'
    BY <1>3 DEF AllInHand, TookName
  <2>4. OwnTask(d) => OwnTask(d)'
    BY <1>5 DEF OwnTask
  <2>5. DataFirst(d) => DataFirst(d)'
    BY DEF DataFirst
  <2>. QED  BY <2>1, <2>2, <2>3, <2>4, <2>5 DEF GoodProvision
<1>9. GoodRead(d) => GoodRead(d)'
  BY <1>3, <1>6 DEF GoodRead
<1>10. GoodUpdate(d) => GoodUpdate(d)'
  <2>1. Replaces(d) => Replaces(d)'
    BY <1>4, <1>5 DEF Replaces
  <2>2. \A r \in cloud : /\ Away(r)' <=> Away(r)
                         /\ Stale(r)' <=> Stale(r)
                         /\ Settled(r)' <=> Settled(r)
    BY <1>4, <1>5, <1>6 DEF Away, Stale, Settled, Recorded
  <2>3. Things(d.tenant) \subseteq cloud
    BY DEF Things
  <2>. QED  BY <1>3, <1>4, <2>1, <2>2, <2>3 DEF GoodUpdate
<1>11. Good(d)'
  BY <1>8, <1>9, <1>10 DEF Good
<1>. QED  BY <1>2, <1>11, KeptNext

\* A call reads the store that it will write.
LEMMA LoadKept ==
    ASSUME Kept, OneByOne, NEW p, Procs = {p}, Next, Load(p)
    PROVE  Kept'
<1>1. PICK c : c = call[p]
  OBVIOUS
<1>2. PICK x : x = [c EXCEPT !.phase = "save", !.seen = store]
  OBVIOUS
<1>3. PICK d : d = call'[p]
  OBVIOUS
<1>4. Full(c) /\ Good(c) /\ c.op # "idle" /\ c.phase = "load"
  BY <1>1, HeldIs DEF Load
<1>5. /\ d = x /\ UNCHANGED <<cloud, born, mode, store, halted, kept, lost>>
  BY <1>1, <1>2, <1>3, SetIs DEF Load, world, history
<1>6. /\ d.op = c.op /\ d.tenant = c.tenant /\ d.refs = c.refs /\ d.old = c.old
      /\ d.undo = c.undo /\ d.at = c.at /\ d.phase = "save" /\ d.seen = store
  BY <1>2, <1>4, <1>5 DEF Full
<1>7. GoodProvision(c) => GoodProvision(d)
  BY <1>4, <1>6
  DEF GoodProvision, StackOK, HasMade, AllInHand, TookName, OwnTask, DataFirst, Hand
<1>8. GoodRead(c) => GoodRead(d)
  BY <1>4, <1>6 DEF GoodRead
<1>9. GoodUpdate(c) => GoodUpdate(d)
  BY <1>4, <1>6 DEF GoodUpdate, Replaces
<1>10. Good(d)
  BY <1>4, <1>6, <1>7, <1>8, <1>9 DEF Good
<1>. QED  BY <1>1, <1>3, <1>4, <1>5, <1>6, <1>10, PlaceKept

\* teardownAgent returns.
LEMMA TornDownKept ==
    ASSUME Kept, OneByOne, NEW p, Procs = {p}, Next, TornDown(p)
    PROVE  Kept'
<1>1. PICK c : c = call[p]
  OBVIOUS
<1>2. PICK x : x = [c EXCEPT !.phase = "load"]
  OBVIOUS
<1>3. PICK d : d = call'[p]
  OBVIOUS
<1>4. /\ Full(c) /\ Good(c) /\ c.op = "teardown" /\ c.phase = "work" /\ c.at > 8
  BY <1>1, HeldIs DEF TornDown, Goes, TeardownSteps
<1>5. /\ d = x /\ UNCHANGED <<cloud, born, mode, store, halted, kept, lost>>
  BY <1>1, <1>2, <1>3, SetIs DEF TornDown, world, history
<1>6. /\ d.op = c.op /\ d.tenant = c.tenant /\ d.refs = c.refs /\ d.old = c.old
      /\ d.at = c.at /\ d.phase = "load"
  BY <1>2, <1>4, <1>5 DEF Full
<1>7. Good(d)
  BY <1>4, <1>6 DEF Good, GoodRead
<1>. QED  BY <1>1, <1>3, <1>4, <1>5, <1>6, <1>7, PlaceKept

\* provisionAgent returns its record.
LEMMA ProvisionedKept ==
    ASSUME Kept, OneByOne, NEW p, Procs = {p}, Next, Provisioned(p)
    PROVE  Kept'
<1>1. PICK c : c = call[p]
  OBVIOUS
<1>2. PICK x : x = [c EXCEPT !.phase = "load", !.running = TRUE]
  OBVIOUS
<1>3. PICK d : d = call'[p]
  OBVIOUS
<1>4. /\ Full(c) /\ GoodProvision(c) /\ c.op = "provision" /\ c.phase = "work" /\ c.at > 11
      /\ c.at \in Nat
  BY <1>1, HeldIs DEF Provisioned, Goes, CreateSteps, Good
<1>5. /\ d = x /\ UNCHANGED <<cloud, born, mode, store, halted, kept, lost>>
  BY <1>1, <1>2, <1>3, SetIs DEF Provisioned, world, history
<1>6. /\ d.op = c.op /\ d.tenant = c.tenant /\ d.refs = c.refs /\ d.old = c.old
      /\ d.undo = c.undo /\ d.at = c.at /\ d.phase = "load"
  BY <1>2, <1>4, <1>5 DEF Full
<1>7. c.at = 12
  BY <1>4 DEF GoodProvision, StackOK
<1>8. GoodProvision(d)
  BY <1>4, <1>6, <1>7
  DEF GoodProvision, StackOK, HasMade, AllInHand, TookName, OwnTask, DataFirst, Hand
<1>. QED  BY <1>1, <1>3, <1>4, <1>5, <1>6, <1>8, PlaceKept DEF Good

\* The polls of a task and of its target.
LEMMA WaitedKept ==
    ASSUME Kept, OneByOne, NEW p, Procs = {p}, Next,
           NEW step \in {"healthy", "ip", "targetHealthy"}, Waited(p, step)
    PROVE  Kept'
<1>1. PICK c : c = call[p]
  OBVIOUS
<1>2. PICK x : x = Next1(p)
  OBVIOUS
<1>3. PICK d : d = call'[p]
  OBVIOUS
<1>4. /\ Full(c) /\ GoodProvision(c) /\ c.op = "provision" /\ c.phase = "work"
      /\ c.at \in Nat \ {0} /\ c.at <= Len(CreateSteps) /\ CreateSteps[c.at] = step
  BY <1>1, HeldIs DEF Waited, Creating, CreateStep, Goes, Good
<1>5. /\ d = x /\ UNCHANGED <<cloud, born, mode, store, halted, kept, lost>>
  BY <1>1, <1>2, <1>3, SetIs DEF Waited, world, history
<1>6. /\ d.op = c.op /\ d.tenant = c.tenant /\ d.refs = c.refs /\ d.old = c.old
      /\ d.undo = c.undo /\ d.at = c.at + 1 /\ d.phase = "work"
  BY <1>1, <1>2, <1>4, <1>5 DEF Full, Next1
<1>7. /\ c.at \in {6, 7, 11} /\ \A k \in Kinds : CreateAt(k) # c.at
  BY <1>4, CreatePlaces DEF Kinds
<1>8. StackOK(d)
  BY <1>4, <1>6, <1>7 DEF GoodProvision, StackOK, StackAt
<1>9. HasMade(d)
  <2>1. \A k \in Kinds : d.at > CreateAt(k) <=> c.at > CreateAt(k)
    BY <1>6, <1>7 DEF CreateAt
  <2>. QED  BY <1>4, <1>6, <2>1 DEF GoodProvision, HasMade
<1>10. GoodProvision(d)
  BY <1>4, <1>6, <1>8, <1>9
  DEF GoodProvision, AllInHand, TookName, OwnTask, DataFirst, Hand
<1>. QED  BY <1>1, <1>3, <1>4, <1>5, <1>6, <1>10, PlaceKept DEF Good

-----------------------------------------------------------------------------
(* The rollback stack. *)

\* A stack in its order stays so when the next kind is pushed,
LEMMA StackPush ==
    ASSUME NEW u \in Seq(Entry), \A i \in 1 .. Len(u) : UndoAt(u[i]) = i,
           NEW e \in Entry, UndoAt(e) = Len(u) + 1, NEW v, v = Append(u, e)
    PROVE  Len(v) = Len(u) + 1 /\ \A i \in 1 .. Len(v) : UndoAt(v[i]) = i
<1>1. /\ Len(u) \in Nat /\ Len(v) = Len(u) + 1 /\ v[Len(u) + 1] = e
      /\ \A i \in 1 .. Len(u) : v[i] = u[i]
  BY AppendProperties, LenProperties
<1>. QED  BY <1>1

\* when the three of the balancer are,
LEMMA StackWiring ==
    ASSUME NEW u \in Seq(Entry), \A i \in 1 .. Len(u) : UndoAt(u[i]) = i, Len(u) = 5,
           NEW v, v = u \o <<"tg", "target", "rule">>
    PROVE  Len(v) = 8 /\ \A i \in 1 .. Len(v) : UndoAt(v[i]) = i
<1>1. PICK w : w = <<"tg", "target", "rule">>
  OBVIOUS
<1>2. w \in Seq(Entry) /\ Len(w) = 3 /\ w[1] = "tg" /\ w[2] = "target" /\ w[3] = "rule"
  BY <1>1 DEF Entry, Kinds
<1>3. /\ Len(u \o w) = Len(u) + Len(w)
      /\ \A i \in 1 .. Len(u) + Len(w) :
            (u \o w)[i] = IF i <= Len(u) THEN u[i] ELSE w[i - Len(u)]
  BY <1>2, ConcatProperties
<1>4. Len(v) = 8 /\ \A i \in 1 .. 8 : v[i] = IF i <= 5 THEN u[i] ELSE w[i - 5]
  BY <1>1, <1>2, <1>3
<1>5. v[6] = "tg" /\ v[7] = "target" /\ v[8] = "rule"
  BY <1>2, <1>4
<1>6. \A i \in 1 .. 5 : v[i] = u[i] /\ UndoAt(u[i]) = i
  BY <1>4
<1>7. UndoAt(v[6]) = 6 /\ UndoAt(v[7]) = 7 /\ UndoAt(v[8]) = 8
  BY <1>5 DEF UndoAt
<1>8. \A i \in 1 .. 8 : i \in 1 .. 5 \/ i = 6 \/ i = 7 \/ i = 8
  OBVIOUS
<1>9. \A i \in 1 .. 8 : UndoAt(v[i]) = i
  BY <1>6, <1>7, <1>8
<1>. QED  BY <1>4, <1>9

\* and when something is popped.
LEMMA StackPop ==
    ASSUME NEW u \in Seq(Entry), \A i \in 1 .. Len(u) : UndoAt(u[i]) = i,
           NEW n \in Nat, n <= Len(u), NEW v, v = SubSeq(u, 1, n)
    PROVE  Len(v) = n /\ \A i \in 1 .. Len(v) : UndoAt(v[i]) = i
<1>1. CASE n = 0
  BY <1>1, SubSeqEmpty
<1>2. CASE n # 0
  <2>1. Len(u) \in Nat
    BY LenProperties
  <2>2. Len(v) = n /\ \A i \in 1 .. n : v[i] = u[i]
    BY <1>2, <2>1, SubSeqProperties
  <2>. QED  BY <2>1, <2>2
<1>. QED  BY <1>1, <1>2

\* The top of the stack.
LEMMA TopIs ==
    ASSUME Kept, NEW p \in Procs, NEW c, c = call[p], Undoing(p), NEW k, k = Top(p)
    PROVE  /\ Full(c) /\ GoodProvision(c) /\ c.op = "provision" /\ c.phase = "undo"
           /\ c.undo \in Seq(Entry) /\ Len(c.undo) \in Nat \ {0}
           /\ k \in Entry /\ UndoAt(k) = Len(c.undo)
           /\ Entries(k) \in 1 .. Len(c.undo)
           /\ \A j \in Kinds : UndoAt(j) <= Len(c.undo) =>
                 \/ UndoAt(j) <= Len(c.undo) - 1
                 \/ j = k
           /\ \A j \in Kinds : UndoAt(j) <= Len(c.undo) =>
                 \/ UndoAt(j) <= Len(c.undo) - Entries(k)
                 \/ j \in IF k \in Wiring THEN Wiring ELSE {k}
<1>1. /\ Full(c) /\ c.op = "provision" /\ c.phase = "undo" /\ GoodProvision(c)
      /\ c.undo \in Seq(Entry) /\ c.undo # << >> /\ Len(c.undo) \in Nat
  BY HeldIs DEF Undoing, Goes, Good
<1>2. Len(c.undo) # 0
  BY <1>1, EmptySeq
<1>3. k = c.undo[Len(c.undo)] /\ k \in Entry
  BY <1>1, <1>2, ElementOfSeq DEF Top
<1>4. UndoAt(k) = Len(c.undo)
  BY <1>1, <1>2, <1>3 DEF GoodProvision, StackOK
<1>5. Entries(k) \in 1 .. UndoAt(k)
  BY <1>3 DEF Entries, UndoAt, Entry, Kinds
<1>6. \A j \in Kinds : UndoAt(j) <= UndoAt(k) => UndoAt(j) <= UndoAt(k) - 1 \/ j = k
  BY <1>3 DEF UndoAt, Entry, Kinds
<1>7. \A j \in Kinds : UndoAt(j) <= UndoAt(k) =>
         \/ UndoAt(j) <= UndoAt(k) - Entries(k)
         \/ j \in IF k \in Wiring THEN Wiring ELSE {k}
  BY <1>3 DEF UndoAt, Entries, Entry, Kinds, Wiring
<1>. QED  BY <1>1, <1>2, <1>3, <1>4, <1>5, <1>6, <1>7

\* The address is registered, and the balancer's undo with it.
LEMMA RegisterIpKept ==
    ASSUME Kept, OneByOne, NEW p, Procs = {p}, Next, RegisterIp(p)
    PROVE  Kept'
<1>1. PICK c : c = call[p]
  OBVIOUS
<1>2. PICK u : u = c.undo \o <<"tg", "target", "rule">>
  OBVIOUS
<1>3. PICK b : b = Next1(p)
  OBVIOUS
<1>4. PICK x : x = [b EXCEPT !.undo = u]
  OBVIOUS
<1>5. PICK d : d = call'[p]
  OBVIOUS
<1>6. /\ Full(c) /\ GoodProvision(c) /\ c.op = "provision" /\ c.phase = "work"
      /\ c.undo \in Seq(Entry)
      /\ c.at \in Nat \ {0} /\ c.at <= Len(CreateSteps) /\ CreateSteps[c.at] = "target"
  BY <1>1, HeldIs DEF RegisterIp, Creating, CreateStep, Goes, Good
<1>7. /\ Full(b) /\ b.op = c.op /\ b.tenant = c.tenant /\ b.refs = c.refs /\ b.old = c.old
      /\ b.undo = c.undo /\ b.at = c.at + 1 /\ b.phase = "work"
  BY <1>1, <1>3, <1>6 DEF Full, Next1
<1>8. /\ d = x /\ UNCHANGED <<cloud, born, mode, store, halted, kept, lost>>
  BY <1>2, <1>3, <1>4, <1>5, <1>7, SetIs DEF RegisterIp, history
<1>9. /\ d.op = c.op /\ d.tenant = c.tenant /\ d.refs = c.refs /\ d.old = c.old
      /\ d.undo = u /\ d.at = c.at + 1 /\ d.phase = "work"
  BY <1>4, <1>7, <1>8 DEF Full
<1>10. c.at = 10 /\ \A k \in Kinds : CreateAt(k) # 10
  BY <1>6, CreatePlaces DEF Kinds
<1>11. /\ \A i \in 1 .. Len(c.undo) : UndoAt(c.undo[i]) = i
       /\ Len(c.undo) = 5
  BY <1>6, <1>10 DEF GoodProvision, StackOK, StackAt
<1>12. Len(u) = 8 /\ \A i \in 1 .. Len(u) : UndoAt(u[i]) = i
  BY <1>2, <1>6, <1>11, StackWiring
<1>13. StackOK(d)
  BY <1>9, <1>10, <1>12 DEF StackOK, StackAt
<1>14. HasMade(d)
  <2>1. \A k \in Kinds : d.at > CreateAt(k) <=> c.at > CreateAt(k)
    BY <1>9, <1>10 DEF CreateAt
  <2>. QED  BY <1>6, <1>9, <2>1 DEF GoodProvision, HasMade
<1>15. GoodProvision(d)
  BY <1>6, <1>9, <1>13, <1>14
  DEF GoodProvision, AllInHand, TookName, OwnTask, DataFirst, Hand
<1>. QED  BY <1>1, <1>5, <1>6, <1>8, <1>9, <1>15, PlaceKept DEF Good

\* A provision that throws has on its stack all that it made, but for a target
\* group that an earlier rollback gave up: it throws at the rule only when an
\* old one has its priority.
LEMMA ThrowsStacked ==
    ASSUME Kept, OneByOne, NEW p \in Procs, Throws(p), NEW c, c = call[p],
           NEW r \in cloud, Hand(c, r)
    PROVE  UndoAt(r.kind) <= Len(c.undo) \/ r.id \in lost
<1>1. /\ GoodProvision(c) /\ c.op = "provision" /\ c.phase = "work"
      /\ c.at \in Nat \ {0} /\ c.at <= Len(CreateSteps)
  BY HeldIs DEF Throws, Creating, Goes, Good
<1>2. r.kind \in Kinds /\ r.id # 0 /\ r.id = c.refs[r.kind] /\ r.tenant = c.tenant
  BY <1>1, ResourceIs DEF Hand
<1>3. c.at > CreateAt(r.kind) /\ c.at <= 11 /\ Len(c.undo) = StackAt(c.at)
  BY <1>1, <1>2, CreatePlaces DEF GoodProvision, HasMade, StackOK
<1>4. CASE c.at \notin {9, 10}
  BY <1>1, <1>2, <1>3, <1>4 DEF UndoAt, CreateAt, StackAt, Kinds
<1>5. CASE c.at = 10
  <2>1. CreateStep(p) = "target"
    BY <1>1, <1>5, CreatePlaces DEF CreateStep
  <2>. QED  BY <2>1 DEF Throws, OneByOne, Fault, Kinds, Polls
<1>6. CASE c.at = 9 /\ r.kind # "tg"
  BY <1>2, <1>3, <1>6 DEF UndoAt, CreateAt, StackAt, Kinds
<1>7. CASE c.at = 9 /\ r.kind = "tg"
  <2>1. CreateStep(p) = "rule"
    BY <1>1, <1>7 DEF CreateStep, CreateSteps
  <2>2. NameTaken("rule", c.tenant)
    BY <2>1 DEF Throws, OneByOne, Fault, Polls
  <2>3. PICK x \in cloud : x.kind = "rule" /\ Priority[x.tenant] = Priority[c.tenant]
    BY <2>2 DEF NameTaken, PriorityTaken
  <2>4. x.tenant = c.tenant /\ x.id # 0 /\ mode # "local"
    BY <2>3, ResourceIs, HeldIs DEF OneByOne, OwnPriorities, Kept, World, KindsOfMode
  <2>5. c.refs["rule"] = 0
    BY <1>1, <1>7 DEF GoodProvision, HasMade, CreateAt, Kinds
  <2>6. c.refs["secret"] # 0
    <3>1. Real("secret")
      BY <2>4 DEF Real, AlbDeps, PublicDeps, Kinds, Wiring, Kept, IInv, Types
    <3>. QED  BY <1>1, <1>7, <3>1 DEF GoodProvision, HasMade, CreateAt, Kinds
  <2>7. x \notin Things(c.tenant)
    BY <1>1, <2>3, <2>4, <2>5, <2>6 DEF GoodProvision, AllInHand, TookName, Hand
  <2>8. x.id \in lost
    BY <2>3, <2>4, <2>7 DEF Things, Away
  <2>. QED  BY <1>2, <1>7, <2>3, <2>4, <2>8 DEF Kept, World, RulesWired
<1>. QED  BY <1>4, <1>5, <1>6, <1>7

\* A step of provisionAgent throws.
LEMMA ThrowsKept ==
    ASSUME Kept, OneByOne, NEW p, Procs = {p}, Next, Throws(p)
    PROVE  Kept'
<1>1. PICK c : c = call[p]
  OBVIOUS
<1>2. PICK x : x = [c EXCEPT !.phase = "undo"]
  OBVIOUS
<1>3. PICK d : d = call'[p]
  OBVIOUS
<1>4. /\ Full(c) /\ GoodProvision(c) /\ c.op = "provision" /\ c.phase = "work"
  BY <1>1, HeldIs DEF Throws, Creating, Goes, Good
<1>5. /\ d = x /\ UNCHANGED <<cloud, born, mode, store, halted, kept, lost>>
  BY <1>1, <1>2, <1>3, SetIs DEF Throws, world, history
<1>6. /\ d.op = c.op /\ d.tenant = c.tenant /\ d.refs = c.refs /\ d.old = c.old
      /\ d.undo = c.undo /\ d.at = c.at /\ d.phase = "undo"
  BY <1>2, <1>4, <1>5 DEF Full
<1>7. \A r \in cloud : Hand(c, r) => Hand(d, r) \/ r.id \in lost
  BY <1>1, <1>4, <1>6, ThrowsStacked DEF Hand
<1>8. World' /\ Books'
  BY <1>1, <1>3, <1>4, <1>5, <1>7, Quiet
<1>9. \A r \in cloud : (Away(r)' <=> Away(r)) /\ (IsUp(r)' <=> IsUp(r))
  BY <1>5 DEF Away, IsUp
<1>10. \A r \in Things(c.tenant)' : Hand(c, r) => Hand(d, r)
  BY <1>5, <1>7, <1>9 DEF Things, Away
<1>11. StackOK(d) /\ HasMade(d)'
  BY <1>4, <1>6 DEF GoodProvision, StackOK, HasMade
<1>12. GoodProvision(d)'
  BY <1>1, <1>4, <1>5, <1>6, <1>9, <1>10, <1>11, ProvisionShrinks
<1>. QED  BY <1>3, <1>4, <1>6, <1>8, <1>12, KeptNext DEF Good

-----------------------------------------------------------------------------
(* Deletions. *)

\* What is there is no fake.
LEMMA ThereIsReal ==
    ASSUME Kept, NEW r \in cloud
    PROVE  Real(r.kind)
<1>1. r.kind \in Kinds /\ mode \in {"alb", "public", "local"}
  BY ResourceIs DEF Kept, IInv, Types
<1>. QED  BY <1>1 DEF Real, AlbDeps, PublicDeps, LocalDeps, Kinds, Wiring, Kept, World, KindsOfMode

\* A deletion takes what it names, and nothing else goes or comes up for it; a
\* target group goes after the rule that leads to it.
LEMMA RemovalShrinks ==
    ASSUME Kept, NEW k, NEW i, NEW t, Unmake(k, i, t), k = "tg" => ~Refused(k, i),
           UNCHANGED mode, kept \subseteq kept', lost \subseteq lost'
    PROVE  /\ cloud' \subseteq cloud
           /\ mode # "local" => \A r \in cloud : IsUp(r)' => IsUp(r)
           /\ \A r \in cloud : Away(r) => Away(r)'
           /\ \A r \in cloud' : r.kind = "rule" => Has("tg", r.refs["tg"], r.tenant)'
           /\ \A r \in cloud' : r.kind = k /\ r.id = i /\ r.tenant = t => Away(r)'
           /\ mode # "local" => \A q \in cloud :
                 q \in cloud' \/ (q.kind = k /\ q.id = i /\ k # "task")
<1>1. CASE mode = "local"
  <2>1. cloud' = cloud \ IF k = "task" THEN Of(k, t) ELSE {r \in cloud : r.kind = k /\ r.id = i}
    BY <1>1 DEF Unmake
  <2>2. \A r \in cloud : r.kind = "task"
    BY <1>1 DEF Kept, World, KindsOfMode
  <2>. QED  BY <1>1, <2>1, <2>2 DEF Of, Away
<1>2. CASE mode # "local" /\ k = "task"
  <2>1. cloud' = cloud /\ halted' = halted \cup {x \in {i} : Exists(k, x)}
    BY <1>2 DEF Unmake
  <2>2. \A r \in cloud : r.kind = "task" /\ r.id = i => r.id \in halted'
    BY <1>2, <2>1 DEF Exists
  <2>3. \A r \in cloud : r.kind = "rule" => Has("tg", r.refs["tg"], r.tenant)'
    BY <2>1 DEF Kept, World, RulesWired, Has
  <2>. QED  BY <1>2, <2>1, <2>2, <2>3 DEF IsUp, Away
<1>3. CASE mode # "local" /\ k # "task"
  <2>1. PICK dead : dead = {r \in cloud : r.kind = k /\ r.id = i}
    OBVIOUS
  <2>2. cloud' = cloud \ dead /\ halted' = halted \ {r.id : r \in dead}
    BY <1>3, <2>1 DEF Unmake
  <2>3. \A r \in cloud : r.kind = "task" => (r.id \in halted' <=> r.id \in halted)
    <3>1. SUFFICES ASSUME NEW r \in cloud, r.kind = "task", NEW q \in dead, r.id = q.id
                   PROVE  FALSE
      BY <2>2
    <3>. QED  BY <1>3, <2>1, <3>1 DEF Kept, World, OneId
  <2>4. ASSUME NEW r \in cloud', r.kind = "rule"
        PROVE  Has("tg", r.refs["tg"], r.tenant)'
    <3>1. PICK q \in cloud : q.kind = "tg" /\ q.id = r.refs["tg"] /\ q.tenant = r.tenant
      BY <2>2, <2>4 DEF Kept, World, RulesWired, Has
    <3>2. q \notin dead
      BY <2>1, <2>2, <2>4, <3>1 DEF Refused
    <3>. QED  BY <2>2, <3>1, <3>2 DEF Has
  <2>5. \A r \in cloud : (IsUp(r)' => IsUp(r)) /\ (Away(r) => Away(r)')
    BY <2>3 DEF IsUp, Away
  <2>. QED  BY <1>3, <2>1, <2>2, <2>4, <2>5
<1>. QED  BY <1>1, <1>2, <1>3

\* The rollback pops its stack.
LEMMA PopIs ==
    ASSUME Kept, NEW p \in Procs, NEW c, c = call[p], Undoing(p), NEW n \in Nat, n <= Len(c.undo),
           Set(p, [c EXCEPT !.undo = SubSeq(@, 1, n)]), NEW d, d = call'[p]
    PROVE  /\ d.op = "provision" /\ d.tenant = c.tenant /\ d.refs = c.refs /\ d.old = c.old
           /\ d.phase = "undo" /\ Len(d.undo) = n /\ StackOK(d) /\ HasMade(d)'
           /\ UNCHANGED mode
<1>1. PICK u : u = SubSeq(c.undo, 1, n)
  OBVIOUS
<1>2. PICK x : x = [c EXCEPT !.undo = u]
  OBVIOUS
<1>3. /\ Full(c) /\ GoodProvision(c) /\ c.op = "provision" /\ c.phase = "undo"
      /\ c.undo \in Seq(Entry)
  BY TopIs
<1>4. d = x /\ UNCHANGED mode
  BY <1>1, <1>2, SetIs
<1>5. /\ d.op = "provision" /\ d.tenant = c.tenant /\ d.refs = c.refs /\ d.old = c.old
      /\ d.phase = "undo" /\ d.undo = u
  BY <1>2, <1>3, <1>4 DEF Full
<1>6. Len(u) = n /\ \A i \in 1 .. Len(u) : UndoAt(u[i]) = i
  BY <1>1, <1>3, StackPop DEF GoodProvision, StackOK
<1>7. StackOK(d) /\ HasMade(d)'
  BY <1>5, <1>6 DEF StackOK, HasMade
<1>. QED  BY <1>4, <1>5, <1>6, <1>7

\* The rollback undoes one kind, and what it undoes nothing that runs was made of.
LEMMA UndoKept ==
    ASSUME Kept, OneByOne, NEW p, Procs = {p}, Next, Undo(p)
    PROVE  Kept'
<1>1. PICK c : c = call[p]
  OBVIOUS
<1>2. PICK d : d = call'[p]
  OBVIOUS
<1>3. PICK k : k = Top(p)
  OBVIOUS
<1>4. /\ c.op = "provision" /\ c.phase = "undo" /\ GoodProvision(c)
      /\ Len(c.undo) \in Nat \ {0} /\ k \in Entry /\ UndoAt(k) = Len(c.undo)
      /\ \A j \in Kinds : UndoAt(j) <= Len(c.undo) => UndoAt(j) <= Len(c.undo) - 1 \/ j = k
  BY <1>1, <1>3, TopIs DEF Undo
<1>5. /\ d.op = "provision" /\ d.tenant = c.tenant /\ d.refs = c.refs /\ d.old = c.old
      /\ d.phase = "undo" /\ Len(d.undo) = Len(c.undo) - 1 /\ StackOK(d) /\ HasMade(d)'
      /\ UNCHANGED mode
  <2>1. PICK n : n = Len(c.undo) - 1
    OBVIOUS
  <2>2. n \in Nat /\ n <= Len(c.undo)
    BY <1>4, <2>1
  <2>3. Undoing(p) /\ Set(p, [c EXCEPT !.undo = SubSeq(@, 1, n)])
    BY <1>1, <2>1 DEF Undo
  <2>4. p \in Procs
    OBVIOUS
  <2>5. /\ d.op = "provision" /\ d.tenant = c.tenant /\ d.refs = c.refs /\ d.old = c.old
        /\ d.phase = "undo" /\ Len(d.undo) = n /\ StackOK(d) /\ HasMade(d)'
        /\ UNCHANGED mode
    BY <1>1, <1>2, <2>2, <2>3, <2>4, PopIs
  <2>. QED  BY <2>1, <2>5
<1>6. UNCHANGED <<born, kept, lost, store>>
  BY DEF Undo, history
<1>7. ASSUME NEW r \in cloud, Hand(c, r)
      PROVE  Hand(d, r) \/ (r.kind = k /\ r.id = c.refs[k] /\ r.tenant = c.tenant)
  BY <1>4, <1>5, <1>7, ResourceIs DEF Hand
<1>8. CASE ~Real(k) \/ k = "target"
  <2>1. UNCHANGED <<cloud, halted>>
    BY <1>1, <1>3, <1>8 DEF Undo, Removal
  <2>2. \A r \in cloud : r.kind # k
    BY <1>8, ThereIsReal, ResourceIs DEF Kinds
  <2>3. \A r \in cloud : Hand(c, r) => Hand(d, r)
    BY <1>7, <2>2
  <2>4. World' /\ Books'
    BY <1>1, <1>2, <1>4, <1>5, <1>6, <2>1, <2>3, Quiet
  <2>5. \A r \in cloud : (Away(r)' <=> Away(r)) /\ (IsUp(r)' <=> IsUp(r))
    BY <1>5, <1>6, <2>1 DEF Away, IsUp
  <2>6. GoodProvision(d)'
    BY <1>1, <1>4, <1>5, <2>1, <2>3, <2>5, ProvisionShrinks DEF Things
  <2>. QED  BY <1>2, <1>5, <2>4, <2>6, KeptNext DEF Good
<1>9. CASE Real(k) /\ k # "target"
  <2>1. k \in Kinds /\ ~Refused(k, c.refs[k]) /\ Unmake(k, c.refs[k], c.tenant)
    BY <1>1, <1>3, <1>4, <1>9 DEF Undo, Accepts, Removal, Entry
  <2>2. /\ cloud' \subseteq cloud
        /\ mode # "local" => \A r \in cloud : IsUp(r)' => IsUp(r)
        /\ \A r \in cloud : Away(r) => Away(r)'
        /\ \A r \in cloud' : r.kind = "rule" => Has("tg", r.refs["tg"], r.tenant)'
        /\ \A r \in cloud' : r.kind = k /\ r.id = c.refs[k] /\ r.tenant = c.tenant => Away(r)'
        /\ mode # "local" => \A q \in cloud :
              q \in cloud' \/ (q.kind = k /\ q.id = c.refs[k] /\ k # "task")
    BY <1>5, <1>6, <2>1, RemovalShrinks
  <2>3. \A r \in cloud' : Hand(c, r) => Hand(d, r) \/ Away(r)'
    BY <1>7, <2>2
  <2>4. \A r \in Things(c.tenant)' : Hand(c, r) => Hand(d, r)
    BY <2>3 DEF Things
  <2>5. \A t \in Tenants : Things(t)' \subseteq Things(t)
    BY <2>2 DEF Things
  <2>6. ASSUME mode # "local", NEW t \in Tenants, NoSecret(t)', ~NoSecret(t), NEW r \in Things(t)'
        PROVE  Hand(d, r)
    <3>1. PICK s \in cloud : s.kind = "secret" /\ s.tenant = t /\ s \notin cloud'
      BY <2>6 DEF NoSecret
    <3>2. s.kind = k /\ s.id = c.refs[k]
      BY <2>2, <2>6, <3>1
    <3>3. s.tenant = c.tenant /\ c.refs["secret"] # 0
      BY <1>1, <2>1, <3>1, <3>2, HeldIs, ResourceIs
    <3>4. Hand(c, r)
      BY <1>4, <2>5, <2>6, <3>1, <3>3 DEF GoodProvision, AllInHand, TookName
    <3>. QED  BY <2>4, <2>6, <3>1, <3>3, <3>4
  <2>8. \A i \in lost' : i <= born'
    BY <1>6 DEF Kept, World, RulesWired
  <2>9. World'
    BY <1>5, <1>6, <2>2, <2>8, WorldShrinks
  <2>10. Books'
    <3>1. mode # "local" => \A t \in Tenants :
               NoSecret(t)' /\ (d.op = "teardown" => d.tenant # t) =>
                  \/ NoSecret(t) /\ (c.op = "teardown" => c.tenant # t)
                  \/ \A r \in Things(t)' : Hand(d, r)
      BY <1>4, <2>6
    <3>. QED  BY <1>1, <1>2, <1>5, <1>6, <2>2, <2>3, <3>1, BooksShrink
  <2>11. GoodProvision(d)'
    BY <1>1, <1>4, <1>5, <2>2, <2>4, ProvisionShrinks
  <2>. QED  BY <1>2, <1>5, <2>9, <2>10, <2>11, KeptNext DEF Good
<1>. QED  BY <1>8, <1>9

\* The rollback swallows an error, and with a rule it gives up its target group.
LEMMA UndoFailsKept ==
    ASSUME Kept, OneByOne, NEW p, Procs = {p}, Next, UndoFails(p)
    PROVE  Kept'
<1>1. PICK c : c = call[p]
  OBVIOUS
<1>2. PICK d : d = call'[p]
  OBVIOUS
<1>3. PICK k : k = Top(p)
  OBVIOUS
<1>4. PICK gone : gone = IF k \in Wiring THEN Wiring ELSE {k}
  OBVIOUS
<1>5. PICK n : n = Len(c.undo) - Entries(k)
  OBVIOUS
<1>6. /\ c.op = "provision" /\ c.phase = "undo" /\ GoodProvision(c)
      /\ Len(c.undo) \in Nat \ {0} /\ k \in Entry /\ UndoAt(k) = Len(c.undo)
      /\ Entries(k) \in 1 .. Len(c.undo)
      /\ \A j \in Kinds : UndoAt(j) <= Len(c.undo) =>
            UndoAt(j) <= Len(c.undo) - Entries(k) \/ j \in gone
  BY <1>1, <1>3, <1>4, TopIs DEF UndoFails
<1>7. n \in Nat /\ n <= Len(c.undo) /\ p \in Procs
  BY <1>5, <1>6
<1>8. Undoing(p) /\ Set(p, [c EXCEPT !.undo = SubSeq(@, 1, n)])
  BY <1>1, <1>3, <1>5 DEF UndoFails
<1>9. /\ d.op = "provision" /\ d.tenant = c.tenant /\ d.refs = c.refs /\ d.old = c.old
      /\ d.phase = "undo" /\ Len(d.undo) = n /\ StackOK(d) /\ HasMade(d)'
      /\ UNCHANGED mode
  BY <1>1, <1>2, <1>7, <1>8, PopIs
<1>10. /\ UNCHANGED <<cloud, halted, born, kept, store>>
       /\ lost' = lost \cup {c.refs[x] : x \in gone \cap Kinds}
  BY <1>1, <1>3, <1>4 DEF UndoFails
<1>11. \A i \in lost' : i <= born
  <2>1. \A i \in lost : i <= born
    BY DEF Kept, World, RulesWired
  <2>2. \A x \in Kinds : c.refs[x] <= born
    BY <1>1, <1>7, HeldIs
  <2>. QED  BY <1>10, <2>1, <2>2
<1>12. \A r \in cloud : Hand(c, r) => Hand(d, r) \/ r.id \in lost'
  <2>1. SUFFICES ASSUME NEW r \in cloud, Hand(c, r) PROVE Hand(d, r) \/ r.id \in lost'
    OBVIOUS
  <2>2. r.kind \in Kinds /\ r.id = c.refs[r.kind] /\ r.tenant = c.tenant
        /\ UndoAt(r.kind) <= Len(c.undo)
    BY <1>6, <2>1, ResourceIs DEF Hand
  <2>3. UndoAt(r.kind) <= n \/ r.kind \in gone
    BY <1>5, <1>6, <2>2
  <2>4. CASE r.kind \in gone
    BY <1>10, <2>2, <2>4
  <2>5. CASE UndoAt(r.kind) <= n
    BY <1>9, <2>2, <2>5 DEF Hand
  <2>. QED  BY <2>3, <2>4, <2>5
<1>13. ASSUME NEW r \in cloud, NEW q \in cloud, r.kind = "rule", r.id \in lost' \ lost,
              q.kind = "tg", q.tenant = r.tenant
       PROVE  q.id \in lost'
  <2>1. PICK x \in gone \cap Kinds : r.id = c.refs[x]
    BY <1>10, <1>13
  <2>2. r.tenant = c.tenant /\ r.id # 0 /\ mode # "local"
    BY <1>1, <1>7, <1>13, <2>1, HeldIs, ResourceIs DEF Kept, World, KindsOfMode
  <2>3. SUFFICES ASSUME q.id \notin lost PROVE q.id \in lost'
    BY <1>10
  <2>4. r \in Things(c.tenant) /\ q \in Things(c.tenant)
    BY <1>13, <2>2, <2>3 DEF Things, Away
  <2>5. CASE c.refs["secret"] # 0
    <3>1. Hand(c, r) /\ Hand(c, q)
      BY <1>6, <2>2, <2>4, <2>5 DEF GoodProvision, AllInHand, TookName
    <3>2. UndoAt("rule") <= UndoAt(k) /\ q.id = c.refs["tg"]
      BY <1>6, <1>13, <3>1 DEF Hand
    <3>3. k = "rule"
      BY <1>6, <3>2 DEF UndoAt, Entry, Kinds
    <3>4. "tg" \in gone \cap Kinds
      BY <1>4, <3>3 DEF Wiring, Kinds
    <3>. QED  BY <1>10, <3>2, <3>4
  <2>6. CASE c.refs["secret"] = 0
    <3>1. x = "accessPoint"
      BY <1>6, <2>1, <2>2, <2>6 DEF GoodProvision, DataFirst
    <3>. QED  BY <1>6, <1>13, <2>1, <2>2, <2>6, <3>1 DEF GoodProvision, DataFirst
  <2>. QED  BY <2>5, <2>6
<1>14. /\ World' /\ Books' /\ \A r \in cloud : Away(r) => Away(r)'
  <2>1. lost \subseteq lost'
    BY <1>10
  <2>2. c.op # "teardown"
    BY <1>6
  <2>3. \A r \in cloud : Hand(c, r) => Hand(d, r) \/ Away(r)' \/ Settled(r)
    BY <1>12 DEF Away
  <2>. QED  BY <1>1, <1>2, <1>9, <1>10, <1>11, <1>13, <2>1, <2>2, <2>3, Still
<1>15. GoodProvision(d)'
  <2>1. \A r \in Things(c.tenant)' : Hand(c, r) => Hand(d, r)
    BY <1>10, <1>12 DEF Things, Away
  <2>2. \A r \in cloud' : IsUp(r)' => IsUp(r)
    BY <1>10 DEF IsUp
  <2>. QED  BY <1>1, <1>6, <1>7, <1>9, <1>10, <1>14, <2>1, <2>2, ProvisionShrinks
<1>. QED  BY <1>2, <1>9, <1>14, <1>15, KeptNext DEF Good

-----------------------------------------------------------------------------
(* provisionAgent makes something. *)

\* What Make makes.
LEMMA MakeBrings ==
    ASSUME Kept, NEW k \in Kinds, NEW t \in Tenants, NEW refs \in WideRefs, Make(k, t, refs),
           mode # "local" => halted' = halted, lost \subseteq lost', lost' \subseteq lost \cup {born + 1},
           UNCHANGED <<mode, store, kept>>,
           NEW n, n = [kind |-> k, id |-> born + 1, tenant |-> t, refs |-> refs]
    PROVE  /\ Brings(n) /\ n.kind = k /\ n.id = born + 1 /\ n.tenant = t /\ n.refs = refs
           /\ mode = "local" /\ k = "task" =>
                 \A r \in cloud' : r.kind = "task" /\ r.tenant = t => r = n
<1>1. born \in Nat
  BY DEF Kept, IInv, Types
<1>2. n \in WideResource /\ n.kind = k /\ n.id = born + 1 /\ n.tenant = t /\ n.refs = refs
  BY <1>1 DEF WideResource
<1>3. born' = born + 1 /\ cloud' = (cloud \ Replaced(k, t)) \cup {n}
  BY DEF Make
<1>4. mode # "local" => Replaced(k, t) = {}
  BY DEF Replaced
<1>5. mode = "local" /\ k = "task" => Replaced(k, t) = Of(k, t)
  BY DEF Replaced
<1>6. Brings(n)
  BY <1>2, <1>3, <1>4 DEF Brings
<1>7. mode = "local" /\ k = "task" =>
         \A r \in cloud' : r.kind = "task" /\ r.tenant = t => r = n
  BY <1>3, <1>5 DEF Of
<1>. QED  BY <1>2, <1>6, <1>7

\* What a provision has at a step.
LEMMA CreatingIs ==
    ASSUME Kept, NEW p \in Procs, NEW c, c = call[p], Creating(p), NEW k \in Kinds, k = CreateStep(p)
    PROVE  /\ Full(c) /\ GoodProvision(c) /\ c.op = "provision" /\ c.phase = "work"
           /\ c.at \in Nat \ {0} /\ c.at = CreateAt(k) /\ c.refs[k] = 0
           /\ Len(c.undo) = StackAt(c.at) /\ c.undo \in Seq(Entry)
           /\ c.tenant \in Tenants /\ c.refs \in WideRefs
           /\ \A j \in Kinds : CreateAt(j) > c.at => c.refs[j] = 0
           /\ \A j \in Kinds : ~Real(j) => c.refs[j] = 0
           /\ \A j \in Kinds : CreateAt(j) < c.at /\ Real(j) => c.refs[j] # 0
           /\ \A j \in Kinds : c.refs[j] # 0 =>
                 CreateAt(j) < c.at /\ Real(j) /\ (j # "task" => Has(j, c.refs[j], c.tenant))
<1>1. /\ Full(c) /\ GoodProvision(c) /\ c.op = "provision" /\ c.phase = "work"
      /\ c.at \in Nat \ {0} /\ c.undo \in Seq(Entry) /\ c.at <= Len(CreateSteps)
      /\ c.tenant \in Tenants /\ c.refs \in WideRefs /\ CreateSteps[c.at] = k
  BY HeldIs DEF Good, Creating, Goes, CreateStep
<1>2. CreateAt(k) = c.at /\ \A j \in Kinds : CreateAt(j) \in Nat
  BY <1>1, CreatePlaces DEF CreateAt, Kinds
<1>3. Len(c.undo) = StackAt(c.at)
  BY <1>1 DEF GoodProvision, StackOK
<1>4. \A j \in Kinds : IF c.at > CreateAt(j) /\ Real(j)
                       THEN c.refs[j] # 0 /\ (j # "task" => Has(j, c.refs[j], c.tenant))
                       ELSE c.refs[j] = 0
  BY <1>1 DEF GoodProvision, HasMade
<1>5. c.refs[k] = 0
  BY <1>2, <1>4
<1>6. /\ \A j \in Kinds : CreateAt(j) > c.at => c.refs[j] = 0
      /\ \A j \in Kinds : ~Real(j) => c.refs[j] = 0
      /\ \A j \in Kinds : CreateAt(j) < c.at /\ Real(j) => c.refs[j] # 0
      /\ \A j \in Kinds : c.refs[j] # 0 =>
            CreateAt(j) < c.at /\ Real(j) /\ (j # "task" => Has(j, c.refs[j], c.tenant))
  BY <1>1, <1>2, <1>4
<1>. QED  BY <1>1, <1>2, <1>3, <1>5, <1>6

\* The stack after the step.
GotUndo(p, k) == IF Registers(k) THEN Append(Next1(p).undo, k) ELSE Next1(p).undo

\* What it has after the step.
LEMMA GotIs ==
    ASSUME Kept, NEW p \in Procs, NEW c, c = call[p], Creating(p), NEW k \in Kinds, k = CreateStep(p),
           NEW i \in Nat, Set(p, Gets(p, k, i, GotUndo(p, k))), NEW d, d = call'[p]
    PROVE  /\ d.op = "provision" /\ d.tenant = c.tenant /\ d.old = c.old /\ d.phase = "work"
           /\ d.at = c.at + 1 /\ d.refs[k] = i /\ StackOK(d) /\ UNCHANGED mode
           /\ \A j \in Kinds \ {k} : d.refs[j] = c.refs[j]
           /\ i = 0 => d.refs = c.refs
<1>1. PICK b : b = Next1(p)
  OBVIOUS
<1>0. PICK undo : undo = IF Registers(k) THEN Append(b.undo, k) ELSE b.undo
  OBVIOUS
<1>2. PICK x : x = Gets(p, k, i, undo)
  OBVIOUS
<1>3. /\ Full(c) /\ GoodProvision(c) /\ c.op = "provision" /\ c.phase = "work"
      /\ c.at \in Nat \ {0} /\ c.at = CreateAt(k) /\ c.refs[k] = 0
      /\ Len(c.undo) = StackAt(c.at) /\ c.undo \in Seq(Entry) /\ c.refs \in WideRefs
  BY CreatingIs
<1>4. /\ Full(b) /\ b.op = c.op /\ b.tenant = c.tenant /\ b.refs = c.refs /\ b.old = c.old
      /\ b.undo = c.undo /\ b.at = c.at + 1 /\ b.phase = c.phase
  BY <1>1, <1>3 DEF Next1, Full
<1>5. /\ x.op = b.op /\ x.tenant = b.tenant /\ x.refs = [b.refs EXCEPT ![k] = i]
      /\ x.old = b.old /\ x.at = b.at /\ x.phase = b.phase /\ x.undo = undo
  BY <1>1, <1>2, <1>4 DEF Full, Gets
<1>6. d = x /\ UNCHANGED mode
  BY <1>0, <1>1, <1>2, SetIs DEF GotUndo
<1>7. /\ d.op = "provision" /\ d.tenant = c.tenant /\ d.old = c.old /\ d.phase = "work"
      /\ d.at = c.at + 1 /\ d.refs = [c.refs EXCEPT ![k] = i] /\ d.undo = undo
  BY <1>3, <1>4, <1>5, <1>6
<1>8. d.refs[k] = i /\ \A j \in Kinds \ {k} : d.refs[j] = c.refs[j]
  BY <1>3, <1>7 DEF WideRefs
<1>9. i = 0 => d.refs = c.refs
  BY <1>3, <1>7 DEF WideRefs
<1>10. \A j \in 1 .. Len(c.undo) : UndoAt(c.undo[j]) = j
  BY <1>3 DEF GoodProvision, StackOK
<1>11. StackOK(d)
  <2>1. CASE Registers(k)
    <3>1. undo = Append(c.undo, k)
      BY <1>0, <1>4, <2>1
    <3>2. /\ c.at <= 5 /\ UndoAt(k) = c.at /\ StackAt(c.at) = c.at - 1
          /\ StackAt(c.at + 1) = c.at /\ k \in Entry
      <4>1. k \in {"accessPoint", "secret", "sg", "taskDef", "task"} /\ k \in Entry
        BY <2>1 DEF Registers, Wiring, Kinds, Entry
      <4>2. UndoAt(k) = CreateAt(k) /\ CreateAt(k) \in 1 .. 5
        BY <4>1 DEF CreateAt, UndoAt
      <4>3. c.at \in 1 .. 5
        BY <1>3, <4>2
      <4>4. StackAt(c.at) = c.at - 1 /\ StackAt(c.at + 1) = c.at
        BY <4>3 DEF StackAt
      <4>. QED  BY <1>3, <4>1, <4>2, <4>3, <4>4
    <3>3. Len(undo) = Len(c.undo) + 1 /\ \A j \in 1 .. Len(undo) : UndoAt(undo[j]) = j
      <4>1. UndoAt(k) = Len(c.undo) + 1
        BY <1>3, <3>2
      <4>2. c.undo \in Seq(Entry) /\ k \in Entry
        BY <1>3, <3>2
      <4>. QED  BY <1>10, <3>1, <4>1, <4>2, StackPush
    <3>4. Len(undo) = StackAt(c.at + 1)
      BY <1>3, <3>2, <3>3
    <3>. QED  BY <1>3, <1>7, <3>2, <3>3, <3>4 DEF StackOK
  <2>2. CASE ~Registers(k)
    <3>1. undo = c.undo
      BY <1>0, <1>4, <2>2
    <3>2. c.at \in {8, 9}
      BY <1>3, <2>2 DEF Registers, Wiring, CreateAt, Kinds
    <3>. QED  BY <1>3, <1>7, <1>10, <3>1, <3>2 DEF StackOK, StackAt
  <2>. QED  BY <2>1, <2>2
<1>. QED  BY <1>6, <1>7, <1>8, <1>9, <1>11

\* A kind that is faked stays without a reference.
LEMMA FakedKept ==
    ASSUME Kept, OneByOne, NEW p, Procs = {p}, Next, Creating(p),
           NEW k \in Kinds, k = CreateStep(p), ~Real(k),
           Set(p, Gets(p, k, 0, GotUndo(p, k))),
           UNCHANGED <<cloud, born, halted, kept, lost, store>>
    PROVE  Kept'
<1>1. PICK c : c = call[p]
  OBVIOUS
<1>2. PICK d : d = call'[p]
  OBVIOUS
<1>3. /\ GoodProvision(c) /\ c.op = "provision" /\ c.phase = "work"
      /\ c.at \in Nat \ {0} /\ c.at = CreateAt(k)
      /\ \A j \in Kinds : CreateAt(j) > c.at => c.refs[j] = 0
      /\ \A j \in Kinds : ~Real(j) => c.refs[j] = 0
      /\ \A j \in Kinds : CreateAt(j) < c.at /\ Real(j) => c.refs[j] # 0
      /\ \A j \in Kinds : c.refs[j] # 0 =>
            CreateAt(j) < c.at /\ Real(j) /\ (j # "task" => Has(j, c.refs[j], c.tenant))
  BY <1>1, CreatingIs
<1>4. p \in Procs /\ 0 \in Nat
  OBVIOUS
<1>5. /\ d.op = "provision" /\ d.tenant = c.tenant /\ d.old = c.old /\ d.phase = "work"
      /\ d.at = c.at + 1 /\ StackOK(d) /\ UNCHANGED mode /\ d.refs = c.refs
  BY <1>1, <1>2, <1>4, GotIs
<1>6. HasMade(d)
  <2>1. \A j \in Kinds : CreateAt(j) = CreateAt(k) => j = k
    BY <1>1, <1>3, CreatePlaces, HeldIs DEF Creating, CreateStep
  <2>2. SUFFICES ASSUME NEW j \in Kinds
                 PROVE  IF d.at > CreateAt(j) /\ Real(j)
                        THEN d.refs[j] # 0 /\ (j # "task" => Has(j, d.refs[j], d.tenant))
                        ELSE d.refs[j] = 0
    BY DEF HasMade
  <2>3. CreateAt(j) \in Nat
    BY DEF CreateAt
  <2>4. CASE d.at > CreateAt(j) /\ Real(j)
    <3>1. CreateAt(j) < c.at
      BY <1>3, <1>5, <2>1, <2>3, <2>4
    <3>. QED  BY <1>3, <1>5, <2>4, <3>1
  <2>5. CASE ~(d.at > CreateAt(j) /\ Real(j))
    BY <1>3, <1>5, <2>3, <2>5
  <2>. QED  BY <2>4, <2>5
<1>7. GoodProvision(d)
  BY <1>3, <1>5, <1>6 DEF GoodProvision, AllInHand, TookName, OwnTask, DataFirst, Hand
<1>8. c.phase # "undo" /\ d.phase # "undo" /\ d.op = c.op /\ Good(d)
  BY <1>3, <1>5, <1>7 DEF Good
<1>. QED  BY <1>1, <1>2, <1>5, <1>8, PlaceKept

\* The target group that is found under the tenant's name is one that a
\* rollback gave up.
LEMMA FoundKept ==
    ASSUME Kept, OneByOne, NEW p, Procs = {p}, Next, Creating(p),
           NEW k \in Kinds, k = CreateStep(p), NEW r \in Existing(k, call[p].tenant),
           Set(p, Gets(p, k, r.id, GotUndo(p, k))),
           UNCHANGED <<cloud, born, halted, kept, lost, store>>
    PROVE  Kept'
<1>1. PICK c : c = call[p]
  OBVIOUS
<1>2. PICK d : d = call'[p]
  OBVIOUS
<1>3. /\ GoodProvision(c) /\ c.op = "provision" /\ c.phase = "work"
      /\ c.at \in Nat \ {0} /\ c.at = CreateAt(k) /\ c.refs[k] = 0 /\ c.tenant \in Tenants
      /\ \A j \in Kinds : CreateAt(j) > c.at => c.refs[j] = 0
      /\ \A j \in Kinds : CreateAt(j) < c.at /\ Real(j) => c.refs[j] # 0
      /\ \A j \in Kinds : c.refs[j] # 0 =>
            CreateAt(j) < c.at /\ Real(j) /\ (j # "task" => Has(j, c.refs[j], c.tenant))
  BY <1>1, CreatingIs
<1>4. /\ k = "tg" /\ r \in cloud /\ r.kind = "tg" /\ TgName[r.tenant] = TgName[c.tenant]
  BY <1>1 DEF Existing
<1>5. r.tenant = c.tenant /\ r.id \in Nat \ {0}
  BY <1>3, <1>4, ResourceIs DEF OneByOne, OwnNames
<1>6. p \in Procs /\ r.id \in Nat
  BY <1>5
<1>7. /\ d.op = "provision" /\ d.tenant = c.tenant /\ d.old = c.old /\ d.phase = "work"
      /\ d.at = c.at + 1 /\ StackOK(d) /\ UNCHANGED mode /\ d.refs["tg"] = r.id
      /\ \A j \in Kinds \ {"tg"} : d.refs[j] = c.refs[j]
  <2>1. /\ d.op = "provision" /\ d.tenant = c.tenant /\ d.old = c.old /\ d.phase = "work"
        /\ d.at = c.at + 1 /\ d.refs[k] = r.id /\ StackOK(d) /\ UNCHANGED mode
        /\ \A j \in Kinds \ {k} : d.refs[j] = c.refs[j]
    BY <1>1, <1>2, <1>6, GotIs
  <2>. QED  BY <1>4, <2>1
<1>8. mode = "alb" /\ \A j \in Kinds : Real(j)
  <2>1. mode \in {"alb", "public", "local"}
    BY DEF Kept, IInv, Types
  <2>2. mode = "alb"
    BY <1>4, <2>1 DEF Kept, World, KindsOfMode
  <2>. QED  BY <2>2 DEF Real, AlbDeps
<1>9. c.at = 8 /\ c.refs["secret"] # 0 /\ d.refs["secret"] # 0 /\ d.at = 9
  <2>1. "secret" \in Kinds /\ CreateAt("secret") = 2 /\ CreateAt("tg") = 8
    BY DEF CreateAt, Kinds
  <2>2. c.at = 8
    BY <1>3, <1>4, <2>1
  <2>3. c.refs["secret"] # 0
    BY <1>3, <1>8, <2>1, <2>2
  <2>. QED  BY <1>7, <2>1, <2>2, <2>3
<1>10. \A x \in cloud : Hand(c, x) => Hand(d, x)
  <2>1. SUFFICES ASSUME NEW x \in cloud, Hand(c, x) PROVE Hand(d, x)
    OBVIOUS
  <2>2. x.kind \in Kinds /\ x.id = c.refs[x.kind] /\ x.id # 0 /\ x.tenant = c.tenant
    BY <1>3, <2>1, ResourceIs DEF Hand
  <2>. QED  BY <1>3, <1>4, <1>7, <2>2 DEF Hand
<1>11. World' /\ Books'
  BY <1>1, <1>2, <1>3, <1>7, <1>10, Quiet
<1>12. HasMade(d)'
  <2>1. SUFFICES ASSUME NEW j \in Kinds
                 PROVE  IF d.at > CreateAt(j)
                        THEN d.refs[j] # 0 /\ (j # "task" => Has(j, d.refs[j], d.tenant)')
                        ELSE d.refs[j] = 0
    BY <1>7, <1>8 DEF HasMade, Real
  <2>2. CASE j = "tg"
    <3>1. Has("tg", r.id, c.tenant)' /\ CreateAt("tg") = 8
      BY <1>4, <1>5 DEF Has, CreateAt
    <3>. QED  BY <1>5, <1>7, <1>9, <2>2, <3>1
  <2>3. CASE j # "tg"
    <3>1. d.refs[j] = c.refs[j] /\ CreateAt(j) \in Nat /\ CreateAt(j) # 8
      BY <1>7, <2>3 DEF CreateAt
    <3>2. CASE CreateAt(j) < 8
      <4>1. c.refs[j] # 0
        BY <1>3, <1>8, <1>9, <3>2
      <4>2. j # "task" => Has(j, c.refs[j], c.tenant)'
        BY <1>3, <4>1 DEF Has
      <4>. QED  BY <1>7, <1>9, <3>1, <3>2, <4>1, <4>2
    <3>3. CASE CreateAt(j) > 8
      BY <1>3, <1>9, <3>1, <3>3
    <3>. QED  BY <3>1, <3>2, <3>3
  <2>. QED  BY <2>2, <2>3
<1>13. AllInHand(d)'
  <2>1. \A x \in cloud : Away(x)' <=> Away(x)
    BY <1>7 DEF Away
  <2>2. Things(c.tenant)' = Things(c.tenant)
    BY <2>1 DEF Things
  <2>3. \A x \in Things(c.tenant) : x \in cloud /\ Hand(c, x)
    BY <1>3, <1>8, <1>9 DEF GoodProvision, AllInHand, TookName, Things
  <2>. QED  BY <1>7, <1>10, <2>2, <2>3 DEF AllInHand
<1>14. OwnTask(d)' /\ DataFirst(d)' /\ \A j \in Kinds : d.old[j] = 0
  BY <1>3, <1>7, <1>8, <1>9 DEF OwnTask, DataFirst, GoodProvision
<1>15. StackOK(d)'
  BY <1>7 DEF StackOK
<1>16. GoodProvision(d)'
  BY <1>12, <1>13, <1>14, <1>15 DEF GoodProvision
<1>. QED  BY <1>2, <1>7, <1>11, <1>16, KeptNext DEF Good

\* The call after it made n.
LEMMA NewInHand ==
    ASSUME Kept, OneByOne, NEW p, Procs = {p}, Creating(p),
           NEW k \in Kinds, k = CreateStep(p), Real(k), ~NameTaken(k, call[p].tenant),
           NEW c, c = call[p], NEW n, Brings(n), n.kind = k, n.id = born + 1, n.tenant = c.tenant,
           n.refs = c.refs,
           mode = "local" /\ k = "task" =>
              \A r \in cloud' : r.kind = "task" /\ r.tenant = c.tenant => r = n,
           NEW d, d.op = "provision", d.tenant = c.tenant, d.old = c.old, d.phase = "work",
           d.at = c.at + 1, d.refs[k] = born + 1, StackOK(d),
           \A j \in Kinds \ {k} : d.refs[j] = c.refs[j]
    PROVE  /\ GoodProvision(d)' /\ \A r \in cloud : Hand(c, r) => Hand(d, r)
           /\ Hand(d, n)
<1>0. p \in Procs
  OBVIOUS
<1>1. /\ GoodProvision(c) /\ c.op = "provision" /\ c.phase = "work"
      /\ c.at \in Nat \ {0} /\ c.at = CreateAt(k) /\ c.refs[k] = 0 /\ c.tenant \in Tenants
      /\ \A j \in Kinds : CreateAt(j) > c.at => c.refs[j] = 0
      /\ \A j \in Kinds : ~Real(j) => c.refs[j] = 0
      /\ \A j \in Kinds : CreateAt(j) < c.at /\ Real(j) => c.refs[j] # 0
      /\ \A j \in Kinds : c.refs[j] # 0 =>
            CreateAt(j) < c.at /\ Real(j) /\ (j # "task" => Has(j, c.refs[j], c.tenant))
  BY <1>0, CreatingIs
<1>2. /\ n.id \in Nat \ {0} /\ n.id \notin lost /\ n \in cloud' /\ UNCHANGED mode
      /\ cloud' \subseteq cloud \cup {n} /\ mode \in {"alb", "public", "local"}
      /\ \A r \in cloud : r.id # n.id /\ \A j \in Kinds : r.refs[j] # n.id
      /\ \A r \in cloud : mode # "local" => (IsUp(r)' <=> IsUp(r))
      /\ \A t \in Tenants : \A r \in Things(t)' : r = n \/ r \in Things(t)
      /\ mode # "local" => \A j, i, t : Has(j, i, t) => Has(j, i, t)'
  BY BringsNew DEF Brings, Kept, IInv, Types
<1>3. \A r \in cloud : Hand(c, r) => Hand(d, r)
  <2>1. SUFFICES ASSUME NEW r \in cloud, Hand(c, r) PROVE Hand(d, r)
    OBVIOUS
  <2>2. r.kind \in Kinds /\ r.id = c.refs[r.kind] /\ r.id # 0 /\ r.tenant = c.tenant
    BY <1>1, <2>1, ResourceIs DEF Hand
  <2>. QED  BY <1>1, <2>2 DEF Hand
<1>4. Hand(d, n)
  BY DEF Hand
<1>5. \A j \in Kinds : CreateAt(j) \in Nat /\ (CreateAt(j) = CreateAt(k) => j = k)
  <2>1. \A j \in Kinds : CreateAt(j) \in Nat
    BY DEF CreateAt
  <2>. QED  BY <1>0, <1>1, <2>1, CreatePlaces, HeldIs DEF Creating, CreateStep
<1>6. HasMade(d)'
  <2>1. SUFFICES ASSUME NEW j \in Kinds
                 PROVE  IF d.at > CreateAt(j) /\ Real(j)
                        THEN d.refs[j] # 0 /\ (j # "task" => Has(j, d.refs[j], d.tenant)')
                        ELSE d.refs[j] = 0
    BY <1>2 DEF HasMade, Real
  <2>2. CASE j = k
    <3>1. Has(k, n.id, c.tenant)'
      BY <1>2 DEF Has
    <3>. QED  BY <1>1, <1>2, <2>2, <3>1
  <2>3. CASE j # k
    <3>1. d.refs[j] = c.refs[j] /\ CreateAt(j) # c.at
      BY <1>1, <1>5, <2>3
    <3>2. CASE CreateAt(j) < c.at /\ Real(j)
      <4>1. c.refs[j] # 0 /\ (j # "task" => Has(j, c.refs[j], c.tenant))
        BY <1>1, <3>2
      <4>2. mode # "local" \/ j = "task"
        BY <3>2 DEF Real, LocalDeps
      <4>. QED  BY <1>1, <1>2, <1>5, <3>1, <3>2, <4>1, <4>2
    <3>3. CASE ~(CreateAt(j) < c.at /\ Real(j))
      <4>1. c.refs[j] = 0
        BY <1>1, <3>3
      <4>2. ~(d.at > CreateAt(j) /\ Real(j))
        BY <1>1, <1>5, <3>1, <3>3
      <4>. QED  BY <3>1, <4>1, <4>2
    <3>. QED  BY <3>2, <3>3
  <2>. QED  BY <2>2, <2>3
<1>7. mode # "local" => Real("secret")
  BY <1>2 DEF Real, AlbDeps, PublicDeps, Kinds, Wiring
<1>8. /\ "secret" \in Kinds /\ "task" \in Kinds /\ "accessPoint" \in Kinds
      /\ CreateAt("secret") = 2 /\ CreateAt("task") = 5 /\ CreateAt("accessPoint") = 1
  BY DEF CreateAt, Kinds
<1>9. AllInHand(d)'
  <2>1. SUFFICES ASSUME TookName(d)', NEW r \in Things(c.tenant)' PROVE Hand(d, r)
    BY DEF AllInHand
  <2>2. r \in cloud' /\ r.tenant = c.tenant /\ (r = n \/ r \in Things(c.tenant))
    BY <1>1, <1>2, <2>1 DEF Things
  <2>3. CASE mode = "local"
    <3>1. k = "task"
      BY <2>3 DEF Real, LocalDeps
    <3>2. r.kind = "task" \/ r = n
      BY <1>2, <2>2, <2>3 DEF Kept, World, KindsOfMode
    <3>. QED  BY <1>4, <2>2, <2>3, <3>1, <3>2
  <2>4. CASE mode # "local" /\ r \in Things(c.tenant) /\ k = "secret"
    <3>1. NoSecret(c.tenant)
      BY <2>4 DEF NameTaken, SecretTaken, Of, NoSecret
    <3>2. ~Leaving(c.tenant)
      BY <1>1, OneHand
    <3>3. Hand(c, r) /\ r \in cloud
      BY <1>1, <2>4, <3>1, <3>2, OneHand DEF Kept, Books, Keyed, Things
    <3>. QED  BY <1>3, <3>3
  <2>5. CASE mode # "local" /\ r \in Things(c.tenant) /\ k # "secret"
    <3>1. c.refs["secret"] # 0
      BY <1>2, <1>8, <2>1, <2>5 DEF TookName
    <3>2. Hand(c, r) /\ r \in cloud
      BY <1>1, <2>5, <3>1 DEF GoodProvision, AllInHand, TookName, Things
    <3>. QED  BY <1>3, <3>2
  <2>. QED  BY <1>4, <2>2, <2>3, <2>4, <2>5
<1>10. OwnTask(d)'
  <2>1. SUFFICES ASSUME mode = "public", d.refs["secret"] # 0, NEW r \in cloud', IsUp(r)',
                        r.refs["secret"] = d.refs["secret"]
                 PROVE  r.id = d.refs["task"] /\ \A j \in Kinds \ {"task"} : r.refs[j] = d.refs[j]
    BY <1>2 DEF OwnTask
  <2>2. r.kind = "task"
    BY <2>1 DEF IsUp
  <2>3. CASE r = n
    BY <2>2, <2>3
  <2>4. CASE r \in cloud
    <3>1. k # "secret"
      BY <1>2, <1>8, <2>1, <2>4
    <3>2. c.refs["secret"] # 0 /\ r.refs["secret"] = c.refs["secret"] /\ IsUp(r)
      BY <1>2, <1>8, <2>1, <2>4, <3>1
    <3>3. r.id = c.refs["task"]
      BY <1>1, <2>1, <2>4, <3>2 DEF GoodProvision, OwnTask
    <3>4. c.at > 5
      BY <1>1, <1>8, <2>4, <3>3, ResourceIs
    <3>5. k \in {"tg", "rule"}
      BY <1>1, <3>4 DEF CreateAt, Kinds
    <3>. QED  BY <2>1, <3>5 DEF Real, PublicDeps, Wiring
  <2>. QED  BY <1>2, <2>3, <2>4
<1>11. DataFirst(d)'
  <2>1. SUFFICES ASSUME mode # "local", d.refs["secret"] = 0 PROVE DataFirst(d)'
    BY <1>2 DEF DataFirst
  <2>2. k # "secret" /\ c.refs["secret"] = 0
    BY <1>2, <1>8, <2>1
  <2>3. c.at <= 2 /\ CreateAt(k) # 2
    BY <1>1, <1>5, <1>7, <1>8, <2>1, <2>2
  <2>4. c.at = 1 /\ k = "accessPoint"
    BY <1>1, <1>5, <1>8, <2>3
  <2>5. \A j \in Kinds : c.refs[j] = 0
    <3>1. \A j \in Kinds : CreateAt(j) >= 1
      BY DEF CreateAt
    <3>. QED  BY <1>1, <1>5, <2>4, <3>1
  <2>6. \A r \in cloud' : r.refs["accessPoint"] # born + 1 /\ (r.id = born + 1 => r = n)
    BY <1>2, <1>8, <2>5
  <2>. QED  BY <2>4, <2>5, <2>6 DEF DataFirst
<1>12. \A j \in Kinds : d.old[j] = 0
  BY <1>1 DEF GoodProvision
<1>13. StackOK(d)'
  BY DEF StackOK
<1>14. GoodProvision(d)'
  BY <1>6, <1>9, <1>10, <1>11, <1>12, <1>13 DEF GoodProvision
<1>. QED  BY <1>3, <1>4, <1>14

\* A resource is made, and comes into the call's hand.
LEMMA MadeKept ==
    ASSUME Kept, OneByOne, NEW p, Procs = {p}, Next, Creating(p),
           NEW k \in Kinds, k = CreateStep(p), Real(k), ~NameTaken(k, call[p].tenant),
           Existing(k, call[p].tenant) = {},
           Set(p, Gets(p, k, born + 1, GotUndo(p, k))), Make(k, call[p].tenant, call[p].refs),
           UNCHANGED <<halted, kept, lost, store>>
    PROVE  Kept'
<1>1. PICK c : c = call[p]
  OBVIOUS
<1>2. PICK d : d = call'[p]
  OBVIOUS
<1>3. PICK n : n = [kind |-> k, id |-> born + 1, tenant |-> c.tenant, refs |-> c.refs]
  OBVIOUS
<1>4. /\ GoodProvision(c) /\ c.op = "provision" /\ c.phase = "work" /\ c.refs \in WideRefs
      /\ c.at \in Nat \ {0} /\ c.at = CreateAt(k) /\ c.refs[k] = 0 /\ c.tenant \in Tenants
      /\ \A j \in Kinds : CreateAt(j) > c.at => c.refs[j] = 0
      /\ \A j \in Kinds : ~Real(j) => c.refs[j] = 0
      /\ \A j \in Kinds : CreateAt(j) < c.at /\ Real(j) => c.refs[j] # 0
      /\ \A j \in Kinds : c.refs[j] # 0 =>
            CreateAt(j) < c.at /\ Real(j) /\ (j # "task" => Has(j, c.refs[j], c.tenant))
  BY <1>1, CreatingIs
<1>5. p \in Procs /\ born + 1 \in Nat /\ mode \in {"alb", "public", "local"}
  BY DEF Kept, IInv, Types
<1>6. /\ d.op = "provision" /\ d.tenant = c.tenant /\ d.old = c.old /\ d.phase = "work"
      /\ d.at = c.at + 1 /\ d.refs[k] = born + 1 /\ StackOK(d) /\ UNCHANGED mode
      /\ \A j \in Kinds \ {k} : d.refs[j] = c.refs[j]
  BY <1>1, <1>2, <1>5, GotIs
<1>7. /\ Brings(n) /\ n.kind = k /\ n.id = born + 1 /\ n.tenant = c.tenant /\ n.refs = c.refs
      /\ mode = "local" /\ k = "task" =>
            \A r \in cloud' : r.kind = "task" /\ r.tenant = c.tenant => r = n
  BY <1>1, <1>3, <1>4, <1>6, MakeBrings
<1>8. /\ GoodProvision(d)' /\ Hand(d, n)
      /\ \A r \in cloud : Hand(c, r) => Hand(d, r)
  BY <1>1, <1>6, <1>7, NewInHand
<1>9. mode = "local" => k = "task" /\ \A j \in Kinds : c.refs[j] = 0
  <2>1. SUFFICES ASSUME mode = "local" PROVE k = "task" /\ \A j \in Kinds : c.refs[j] = 0
    OBVIOUS
  <2>2. k = "task" /\ \A j \in Kinds \ {"task"} : ~Real(j)
    BY <2>1 DEF Real, LocalDeps
  <2>. QED  BY <1>4, <2>2
<1>10. mode = "public" => k # "tg" /\ k # "rule"
  BY DEF Real, PublicDeps, Wiring
<1>11. k = "task" => \A j \in {"task", "tg", "rule"} : c.refs[j] = 0
  <2>1. k = "task" => \A j \in {"tg", "rule"} : j \in Kinds /\ CreateAt(j) > c.at
    BY <1>4 DEF CreateAt, Kinds
  <2>. QED  BY <1>4, <2>1
<1>12. k \in {"secret", "tg"} => \A r \in cloud : r.kind = k => r.tenant # c.tenant
  BY <1>1 DEF NameTaken, SecretTaken, Of, Existing
<1>13. k = "rule" => Has("tg", c.refs["tg"], c.tenant)
  <2>1. SUFFICES ASSUME k = "rule" PROVE Has("tg", c.refs["tg"], c.tenant)
    OBVIOUS
  <2>2. mode = "alb"
    BY <1>5, <2>1 DEF Real, PublicDeps, LocalDeps, Wiring
  <2>3. Real("tg") /\ "tg" \in Kinds /\ CreateAt("tg") < CreateAt("rule")
    BY <2>2 DEF Real, AlbDeps, Kinds, CreateAt
  <2>. QED  BY <1>4, <2>1, <2>3
<1>14. mode # "local" /\ k = "task" => c.refs["secret"] # 0
  <2>1. mode # "local" => Real("secret")
    BY <1>5 DEF Real, AlbDeps, PublicDeps, Kinds, Wiring
  <2>2. "secret" \in Kinds /\ CreateAt("secret") < CreateAt("task")
    BY DEF CreateAt, Kinds
  <2>. QED  BY <1>4, <2>1, <2>2
<1>15. mode = "public" /\ k = "task" =>
          \A r \in cloud : IsUp(r) => r.refs["secret"] # c.refs["secret"]
  BY <1>4, <1>14, ResourceIs DEF GoodProvision, OwnTask
<1>16. World'
  BY <1>7, <1>9, <1>10, <1>11, <1>12, <1>13, <1>15, WorldGrows
<1>17. mode = "public" /\ k = "task" => \A q \in Things(c.tenant) : q.id = c.refs[q.kind]
  BY <1>4, <1>14 DEF GoodProvision, AllInHand, TookName, Hand
<1>19. Books'
  BY <1>1, <1>2, <1>4, <1>7, <1>8, <1>9, <1>17, BooksGrow
<1>. QED  BY <1>2, <1>6, <1>8, <1>16, <1>19, KeptNext DEF Good

\* A step of provisionAgent makes, finds or fakes.
LEMMA CreateKept ==
    ASSUME Kept, OneByOne, NEW p, Procs = {p}, Next, Create(p)
    PROVE  Kept'
<1>1. PICK k : k = CreateStep(p)
  OBVIOUS
<1>2. /\ Creating(p) /\ k \in Kinds /\ ~NameTaken(k, call[p].tenant)
      /\ UNCHANGED <<halted, kept, lost, store>>
      /\ \/ ~Real(k) /\ Set(p, Gets(p, k, 0, GotUndo(p, k))) /\ UNCHANGED <<cloud, born>>
         \/ /\ Real(k) /\ Existing(k, call[p].tenant) = {}
            /\ Set(p, Gets(p, k, born + 1, GotUndo(p, k)))
            /\ Make(k, call[p].tenant, call[p].refs)
         \/ /\ \E r \in Existing(k, call[p].tenant) : Set(p, Gets(p, k, r.id, GotUndo(p, k)))
            /\ UNCHANGED <<cloud, born>>
  BY <1>1 DEF Create, Gets, GotUndo, history
<1>. QED  BY <1>1, <1>2, FakedKept, FoundKept, MadeKept

\* A resource is made and the step throws: it is given up at once.
LEMMA HalfMadeKept ==
    ASSUME Kept, OneByOne, NEW p, Procs = {p}, Next, SgRulesFail(p) \/ DockerRunFails(p)
    PROVE  Kept'
<1>1. PICK c : c = call[p]
  OBVIOUS
<1>2. PICK d : d = call'[p]
  OBVIOUS
<1>3. PICK k : k = CreateStep(p)
  OBVIOUS
<1>4. PICK x : x = [c EXCEPT !.phase = "undo"]
  OBVIOUS
<1>5. PICK n : n = [kind |-> k, id |-> born + 1, tenant |-> c.tenant, refs |-> c.refs]
  OBVIOUS
<1>6. /\ Creating(p) /\ p \in Procs /\ Set(p, x) /\ Make(k, c.tenant, c.refs)
      /\ lost' = lost \cup {born + 1} /\ UNCHANGED <<kept, store>>
      /\ \/ k = "sg" /\ mode # "local" /\ halted' = halted
         \/ k = "task" /\ mode = "local"
  BY <1>1, <1>3, <1>4 DEF SgRulesFail, DockerRunFails, Real, LocalDeps
<1>7. k \in Kinds /\ mode \in {"alb", "public", "local"}
  BY <1>6 DEF Kinds, Kept, IInv, Types
<1>8. /\ Full(c) /\ GoodProvision(c) /\ c.op = "provision" /\ c.phase = "work"
      /\ c.refs \in WideRefs /\ c.tenant \in Tenants
      /\ c.at \in Nat \ {0} /\ c.at = CreateAt(k) /\ c.refs[k] = 0
      /\ Len(c.undo) = StackAt(c.at)
      /\ \A j \in Kinds : ~Real(j) => c.refs[j] = 0
      /\ \A j \in Kinds : CreateAt(j) < c.at /\ Real(j) => c.refs[j] # 0
      /\ \A j \in Kinds : c.refs[j] # 0 =>
            CreateAt(j) < c.at /\ Real(j) /\ (j # "task" => Has(j, c.refs[j], c.tenant))
  BY <1>1, <1>3, <1>6, <1>7, CreatingIs
<1>9. d = x /\ UNCHANGED mode
  BY <1>2, <1>6, SetIs
<1>10. /\ d.op = c.op /\ d.tenant = c.tenant /\ d.refs = c.refs /\ d.old = c.old
       /\ d.undo = c.undo /\ d.at = c.at /\ d.phase = "undo"
  BY <1>4, <1>8, <1>9 DEF Full
<1>11. /\ Brings(n) /\ n.kind = k /\ n.id = born + 1 /\ n.tenant = c.tenant /\ n.refs = c.refs
  BY <1>5, <1>6, <1>7, <1>8, <1>9, MakeBrings
<1>12. n.id \in lost' /\ Away(n)'
  BY <1>6, <1>11 DEF Away
<1>13. mode = "local" => \A j \in Kinds : c.refs[j] = 0
  <2>1. mode = "local" => k = "task" /\ \A j \in Kinds \ {"task"} : ~Real(j)
    BY <1>6 DEF Real, LocalDeps
  <2>. QED  BY <1>8, <2>1
<1>14. mode # "local" => c.refs["secret"] # 0
  <2>1. mode # "local" => Real("secret")
    BY <1>7 DEF Real, AlbDeps, PublicDeps, Kinds, Wiring
  <2>2. "secret" \in Kinds /\ CreateAt("secret") < CreateAt("sg")
    BY DEF CreateAt, Kinds
  <2>. QED  BY <1>6, <1>8, <2>1, <2>2
<1>15. \A r \in cloud : Hand(c, r) => Hand(d, r)
  <2>1. SUFFICES ASSUME NEW r \in cloud, Hand(c, r) PROVE Hand(d, r)
    OBVIOUS
  <2>2. r.kind \in Kinds /\ r.id = c.refs[r.kind] /\ r.id # 0 /\ r.tenant = c.tenant
    BY <1>8, <2>1, ResourceIs DEF Hand
  <2>3. c.at = 3 /\ CreateAt(r.kind) < 3
    BY <1>6, <1>8, <1>13, <2>2 DEF CreateAt
  <2>4. UndoAt(r.kind) <= 2
    BY <2>2, <2>3 DEF CreateAt, UndoAt, Kinds
  <2>5. Len(c.undo) = 2
    BY <1>8, <2>3 DEF StackAt
  <2>. QED  BY <1>8, <1>10, <2>2, <2>4, <2>5 DEF Hand
<1>16. World'
  <2>1. k \notin {"secret", "tg", "rule"}
    BY <1>6
  <2>2. k = "task" => mode = "local" /\ \A j \in {"task", "tg", "rule"} : c.refs[j] = 0
    BY <1>6, <1>13 DEF Kinds
  <2>. QED  BY <1>6, <1>11, <1>13, <2>1, <2>2, WorldGrows
<1>17. Books'
  BY <1>1, <1>2, <1>6, <1>8, <1>11, <1>12, <1>13, <1>15, BooksGrow
<1>18. GoodProvision(d)'
  <2>1. StackOK(d)'
    BY <1>8, <1>10 DEF GoodProvision, StackOK
  <2>2. HasMade(d)'
    BY <1>10 DEF HasMade
  <2>3. AllInHand(d)'
    <3>1. SUFFICES ASSUME TookName(d)', NEW r \in Things(c.tenant)' PROVE Hand(d, r)
      BY <1>10 DEF AllInHand
    <3>2. r \in Things(c.tenant) /\ r \in cloud
      <4>1. r = n \/ r \in Things(c.tenant)
        BY <1>8, <1>11, <3>1, BringsNew
      <4>2. r # n
        BY <1>12, <3>1 DEF Things
      <4>. QED  BY <4>1, <4>2 DEF Things
    <3>3. TookName(c)
      BY <1>9, <1>10, <3>1 DEF TookName
    <3>. QED  BY <1>8, <1>15, <3>2, <3>3 DEF GoodProvision, AllInHand
  <2>4. OwnTask(d)'
    <3>1. SUFFICES ASSUME mode = "public", NEW r \in cloud', IsUp(r)',
                          r.refs["secret"] = c.refs["secret"], c.refs["secret"] # 0
                   PROVE  r.id = c.refs["task"] /\ \A j \in Kinds \ {"task"} : r.refs[j] = c.refs[j]
      BY <1>9, <1>10 DEF OwnTask
    <3>2. r # n
      BY <1>6, <1>11, <3>1 DEF IsUp
    <3>3. r \in cloud /\ IsUp(r)
      BY <1>6, <1>11, <3>1, <3>2 DEF Brings, IsUp
    <3>. QED  BY <1>8, <3>1, <3>3 DEF GoodProvision, OwnTask
  <2>5. DataFirst(d)' /\ \A j \in Kinds : d.old[j] = 0
    BY <1>8, <1>9, <1>10, <1>14 DEF DataFirst, GoodProvision
  <2>. QED  BY <2>1, <2>2, <2>3, <2>4, <2>5 DEF GoodProvision
<1>. QED  BY <1>2, <1>8, <1>10, <1>16, <1>17, <1>18, KeptNext DEF Good

-----------------------------------------------------------------------------
(* teardownAgent. *)

\* The steps of teardownAgent.
LEMMA TeardownPlaces ==
    ASSUME NEW a \in Nat \ {0}, a <= Len(TeardownSteps)
    PROVE  /\ a <= 8 /\ Len(TeardownSteps) = 8 /\ TeardownSteps[a] \in Entry
           /\ \A k \in Kinds : TeardownAt(k) = a <=> TeardownSteps[a] = k
<1>1. Len(TeardownSteps) = 8
  BY DEF TeardownSteps
<1>2. a \in {1, 2, 3, 4, 5, 6, 7, 8}
  BY <1>1
<1>3. TeardownSteps[a] \in Entry
  BY <1>2 DEF TeardownSteps, Entry, Kinds
<1>4. \A k \in Kinds : TeardownAt(k) = a <=> TeardownSteps[a] = k
  BY <1>2 DEF TeardownSteps, TeardownAt, Kinds
<1>. QED  BY <1>1, <1>2, <1>3, <1>4

\* A teardown goes on: what was named at its step is gone, or away.
LEMMA DeleteKept ==
    ASSUME Kept, OneByOne, NEW p, Procs = {p}, Next, Delete(p)
    PROVE  Kept'
<1>1. PICK c : c = call[p]
  OBVIOUS
<1>2. PICK d : d = call'[p]
  OBVIOUS
<1>3. PICK k : k = TeardownStep(p)
  OBVIOUS
<1>4. PICK x : x = Next1(p)
  OBVIOUS
<1>5. /\ Full(c) /\ GoodRead(c) /\ c.op = "teardown" /\ c.phase = "work" /\ p \in Procs
      /\ c.at \in Nat \ {0} /\ c.at <= Len(TeardownSteps) /\ TeardownSteps[c.at] = k
      /\ c.tenant \in Tenants
  BY <1>1, <1>3, HeldIs DEF Delete, TearingDown, TeardownStep, Goes, Good
<1>6. /\ k \in Entry /\ c.at <= 8 /\ \A j \in Kinds : TeardownAt(j) = c.at <=> j = k
  BY <1>5, TeardownPlaces
<1>7. /\ Set(p, x) /\ UNCHANGED <<born, lost, store>>
      /\ \/ Skips(p) /\ UNCHANGED <<cloud, halted>>
         \/ k = "target" /\ UNCHANGED <<cloud, halted>>
         \/ k # "target" /\ ~Refused(k, c.refs[k]) /\ Unmake(k, c.refs[k], c.tenant)
      /\ kept' = IF k = "accessPoint" /\ ~c.data THEN kept \cup {c.refs[k]} ELSE kept
  BY <1>1, <1>3, <1>4 DEF Delete, Accepts, Removal
<1>8. d = x /\ UNCHANGED mode
  BY <1>2, <1>5, <1>7, SetIs
<1>9. /\ d.op = "teardown" /\ d.tenant = c.tenant /\ d.refs = c.refs /\ d.old = c.old
      /\ d.at = c.at + 1 /\ d.phase = "work"
  BY <1>1, <1>4, <1>5, <1>8 DEF Full, Next1
<1>10. kept \subseteq kept' /\ lost \subseteq lost'
  BY <1>7
<1>11. ASSUME Skips(p), NEW r \in cloud, r.kind = k, r.id = c.refs[k], r.tenant = c.tenant
       PROVE  Away(r)'
  <2>1. r.kind \in Kinds /\ r.id # 0
    BY <1>11, ResourceIs
  <2>2. CASE k = "accessPoint" /\ ~c.data
    BY <1>7, <1>11, <2>2 DEF Away
  <2>3. CASE k \in Wiring /\ 0 \in {c.refs["rule"], c.refs["tg"], c.refs["task"]}
    <3>1. k # "task" /\ k \in {"tg", "rule"}
      BY <1>11, <2>1, <2>3 DEF Wiring, Kinds
    <3>2. mode = "alb"
      BY <1>11, <3>1 DEF Kept, World, KindsOfMode, IInv, Types
    <3>3. \A j \in Kinds : c.refs[j] # 0
      BY <1>5, <3>2 DEF GoodRead, Kept, World, FullRecords
    <3>. QED  BY <2>3, <3>3 DEF Kinds
  <2>. QED  BY <1>1, <1>3, <1>11, <2>1, <2>2, <2>3 DEF Skips
<1>12. /\ cloud' \subseteq cloud
       /\ mode # "local" => \A r \in cloud : IsUp(r)' => IsUp(r)
       /\ \A r \in cloud : Away(r) => Away(r)'
       /\ \A r \in cloud' : r.kind = "rule" => Has("tg", r.refs["tg"], r.tenant)'
       /\ \A r \in cloud' : r.kind = k /\ r.id = c.refs[k] /\ r.tenant = c.tenant => Away(r)'
       /\ mode # "local" => \A q \in cloud :
             q \in cloud' \/ (q.kind = k /\ q.id = c.refs[k] /\ k # "task")
  <2>1. CASE k # "target" /\ ~Refused(k, c.refs[k]) /\ Unmake(k, c.refs[k], c.tenant)
    BY <1>8, <1>10, <2>1, RemovalShrinks
  <2>2. CASE (Skips(p) \/ k = "target") /\ UNCHANGED <<cloud, halted>>
    <3>1. \A r \in cloud : r.kind = k /\ r.id = c.refs[k] /\ r.tenant = c.tenant => Away(r)'
      <4>1. k = "target" => \A r \in cloud : r.kind # k
        BY ResourceIs DEF Kinds
      <4>. QED  BY <1>11, <2>2, <4>1
    <3>2. \A r \in cloud : (IsUp(r)' => IsUp(r)) /\ (Away(r) => Away(r)')
      BY <1>8, <1>10, <2>2 DEF IsUp, Away
    <3>3. \A r \in cloud' : r.kind = "rule" => Has("tg", r.refs["tg"], r.tenant)'
      BY <2>2 DEF Kept, World, RulesWired, Has
    <3>. QED  BY <2>2, <3>1, <3>2, <3>3
  <2>. QED  BY <1>7, <2>1, <2>2
<1>13. \A r : ~Hand(c, r)
  BY <1>5, AtRest
<1>14. \A t \in Tenants : Things(t)' \subseteq Things(t)
  BY <1>12 DEF Things
<1>15. ASSUME mode # "local", NEW t \in Tenants, NoSecret(t)', ~NoSecret(t)
       PROVE  t = c.tenant /\ k = "secret"
  <2>1. PICK s \in cloud : s.kind = "secret" /\ s.tenant = t /\ s \notin cloud'
    BY <1>15 DEF NoSecret
  <2>2. s.kind = k /\ s.id = c.refs[k] /\ k \in Kinds
    BY <1>12, <1>15, <2>1, ResourceIs
  <2>3. s.tenant = c.tenant
    BY <1>1, <1>5, <2>1, <2>2, HeldIs
  <2>. QED  BY <2>1, <2>2, <2>3
<1>17. \A i \in lost' : i <= born'
  BY <1>7 DEF Kept, World, RulesWired
<1>18. World'
  BY <1>7, <1>8, <1>10, <1>12, <1>17, WorldShrinks
<1>19. Books'
  <2>1. mode # "local" => \A t \in Tenants :
             NoSecret(t)' /\ (d.op = "teardown" => d.tenant # t) =>
                \/ NoSecret(t) /\ (c.op = "teardown" => c.tenant # t)
                \/ \A r \in Things(t)' : Hand(d, r)
    BY <1>9, <1>15
  <2>2. \A r \in cloud' : Hand(c, r) => Hand(d, r) \/ Away(r)'
    BY <1>13
  <2>. QED  BY <1>1, <1>2, <1>7, <1>8, <1>10, <1>12, <2>1, <2>2, BooksShrink
<1>20. \A r \in Things(c.tenant)' : TeardownAt(r.kind) >= d.at
  <2>1. SUFFICES ASSUME NEW r \in Things(c.tenant)' PROVE TeardownAt(r.kind) >= d.at
    OBVIOUS
  <2>2. /\ r \in cloud' /\ r.tenant = c.tenant /\ ~Away(r)' /\ r.kind \in Kinds
        /\ r.id = c.refs[r.kind] /\ TeardownAt(r.kind) >= c.at
    BY <1>1, <1>5, <1>14, <2>1, LeaversRecorded DEF Things
  <2>3. r.kind # k
    BY <1>12, <2>2
  <2>4. TeardownAt(r.kind) # c.at /\ TeardownAt(r.kind) \in Nat
    BY <1>6, <2>2, <2>3 DEF TeardownAt
  <2>. QED  BY <1>5, <1>9, <2>2, <2>4
<1>21. d.at <= 7 /\ mode # "local" /\ NoSecret(c.tenant)' => Things(c.tenant)' = {}
  <2>1. SUFFICES ASSUME d.at <= 7, mode # "local", NoSecret(c.tenant)'
                 PROVE  Things(c.tenant)' = {}
    OBVIOUS
  <2>2. c.at # 7 /\ TeardownAt("secret") = 7 /\ "secret" \in Kinds
    BY <1>5, <1>9, <2>1 DEF TeardownAt, Kinds
  <2>3. k # "secret"
    BY <1>6, <2>2
  <2>4. NoSecret(c.tenant) /\ c.at <= 7
    BY <1>5, <1>9, <1>15, <2>1, <2>3
  <2>5. Things(c.tenant) = {}
    BY <1>5, <2>1, <2>4 DEF GoodRead
  <2>. QED  BY <1>5, <1>14, <2>5
<1>22. GoodRead(d)'
  BY <1>5, <1>7, <1>8, <1>9, <1>20, <1>21 DEF GoodRead
<1>. QED  BY <1>2, <1>9, <1>18, <1>19, <1>22, KeptNext DEF Good

-----------------------------------------------------------------------------
(* controlAgent. *)

\* docker start, stop or restart.
LEMMA DockerControlsKept ==
    ASSUME Kept, OneByOne, NEW p, Procs = {p}, Next, NEW v, DockerControls(p, v)
    PROVE  Kept'
<1>1. PICK c : c = call[p]
  OBVIOUS
<1>2. PICK d : d = call'[p]
  OBVIOUS
<1>3. /\ Full(c) /\ GoodRead(c) /\ c.op = "control" /\ c.phase = "work" /\ p \in Procs
      /\ mode = "local" /\ c.tenant \in Tenants
  BY <1>1, HeldIs DEF DockerControls, Goes, Good, GoodRead
<1>4. UNCHANGED <<cloud, born, kept, lost, store>>
  BY DEF DockerControls, history
<1>5. /\ UNCHANGED mode
      /\ d.op = "idle" \/ (d.op = "control" /\ d.tenant = c.tenant /\ d.refs = c.refs /\ d.phase = "load")
  <2>1. CASE Quit(p)
    BY <1>2, <1>3, <2>1, QuitIs
  <2>2. CASE ~Quit(p)
    <3>1. PICK e : Set(p, [c EXCEPT !.phase = "load", !.running = e])
      BY <1>1, <2>2 DEF DockerControls
    <3>2. PICK x : x = [c EXCEPT !.phase = "load", !.running = e]
      OBVIOUS
    <3>3. d = x /\ UNCHANGED mode
      BY <1>2, <1>3, <3>1, <3>2, SetIs
    <3>. QED  BY <1>3, <3>2, <3>3 DEF Full
  <2>. QED  BY <2>1, <2>2
<1>6. \A r : ~Hand(c, r)
  BY <1>3, AtRest
<1>7. \A i \in lost' : i <= born
  BY <1>4 DEF Kept, World, RulesWired
<1>8. World' /\ Books'
  BY <1>1, <1>2, <1>3, <1>4, <1>5, <1>6, <1>7, Still
<1>9. Good(d)'
  BY <1>3, <1>4, <1>5 DEF Good, GoodRead
<1>. QED  BY <1>2, <1>8, <1>9, KeptNext

-----------------------------------------------------------------------------
(* updateAwsAgent. *)

\* An update at one of its steps.
LEMMA UpdatingIs ==
    ASSUME Kept, NEW p \in Procs, NEW c, c = call[p], Updating(p)
    PROVE  /\ Full(c) /\ GoodUpdate(c) /\ Replaces(c) /\ c.op = "update" /\ c.phase = "work"
           /\ mode = "public" /\ c.at \in 1 .. 5 /\ c.tenant \in Tenants
           /\ c.refs \in WideRefs /\ c.old \in WideRefs
           /\ UpdateStep(p) = "newTaskDef" => c.at = 1
           /\ UpdateStep(p) = "stopOld" => c.at = 2
           /\ UpdateStep(p) = "runNew" => c.at = 3
           /\ UpdateStep(p) = "waitNew" => c.at = 4
           /\ UpdateStep(p) = "dropOld" => c.at = 5
<1>1. /\ Full(c) /\ GoodUpdate(c) /\ c.op = "update" /\ c.phase = "work"
      /\ c.at \in Nat \ {0} /\ c.at <= 5 /\ c.tenant \in Tenants
      /\ c.refs \in WideRefs /\ c.old \in WideRefs
  BY HeldIs DEF Updating, Goes, Good, GoodUpdate
<1>2. c.at \in {1, 2, 3, 4, 5}
  BY <1>1
<1>. QED  BY <1>1, <1>2 DEF GoodUpdate, UpdateStep, UpdateSteps

\* What may be dropped stays so while nothing comes up and no secret goes.
LEMMA SettledStays ==
    ASSUME cloud' \subseteq cloud, UNCHANGED store,
           \A r \in cloud' : IsUp(r)' => IsUp(r),
           \A r \in cloud : r.kind = "secret" => r \in cloud',
           NEW r, Settled(r)
    PROVE  Settled(r)'
<1>1. Recorded(r)' /\ ~NoSecret(r.tenant)'
  BY DEF Settled, Recorded, NoSecret
<1>2. \A x \in cloud' : IsUp(x)' /\ Exists("secret", x.refs["secret"])' =>
         x \in cloud /\ IsUp(x) /\ Exists("secret", x.refs["secret"])
  BY DEF Exists
<1>. QED  BY <1>1, <1>2 DEF Settled

\* It makes the task definition or the task.
LEMMA UpdateMakes ==
    ASSUME Kept, OneByOne, NEW p, Procs = {p}, Next, NEW c, c = call[p], Updating(p),
           NEW n, Brings(n), n.tenant = c.tenant, n.kind \in {"task", "taskDef"},
           NEW d, d = call'[p], d.op = "update", d.tenant = c.tenant, d.old = c.old,
           d.phase = "work", d.at = c.at + 1, d.refs[n.kind] = n.id,
           \A j \in Kinds \ {n.kind} : d.refs[j] = c.refs[j],
           c.refs[n.kind] = c.old[n.kind],
           n.kind = "task" =>
              /\ c.at = 3 /\ Exists("secret", c.old["secret"])
              /\ \A j \in {"task", "tg", "rule"} : n.refs[j] = 0
              /\ \A j \in Kinds \ {"task"} : n.refs[j] = c.refs[j],
           Replaces(d)'
    PROVE  Kept'
<1>0. p \in Procs
  OBVIOUS
<1>1. /\ GoodUpdate(c) /\ Replaces(c) /\ c.op = "update" /\ c.phase = "work" /\ mode = "public"
      /\ c.at \in 1 .. 5 /\ c.tenant \in Tenants
  BY <1>0, UpdatingIs
<1>2. /\ n \in cloud' /\ UNCHANGED mode /\ cloud' \subseteq cloud \cup {n}
      /\ \A t \in Tenants : \A r \in Things(t)' : r = n \/ r \in Things(t)
      /\ \A j, i : Exists(j, i) => Exists(j, i)'
  BY <1>1, BringsNew DEF Brings
<1>3. \A r \in cloud : Hand(c, r) => Hand(d, r)
  BY <1>1 DEF Hand, Kinds
<1>4. Hand(d, n)
  BY DEF Hand
<1>5. n.kind = "task" => \A q \in Things(c.tenant) :
         q.id = n.refs[q.kind] \/ Stale(q) \/ Hand(d, q)
  <2>1. SUFFICES ASSUME n.kind = "task", NEW q \in Things(c.tenant), ~Stale(q)
                 PROVE  q.id = n.refs[q.kind] \/ Hand(d, q)
    OBVIOUS
  <2>2. /\ q \in cloud /\ q.kind \in Kinds /\ q.tenant = c.tenant
        /\ q.id \in {c.refs[q.kind], c.old[q.kind]}
    BY <1>1, <2>1, ResourceIs DEF GoodUpdate, Things
  <2>3. CASE q.kind \in {"task", "taskDef"}
    BY <1>1, <1>3, <2>2, <2>3 DEF Hand
  <2>4. CASE q.kind \notin {"task", "taskDef"}
    BY <1>1, <2>1, <2>2, <2>4 DEF GoodUpdate
  <2>. QED  BY <2>3, <2>4
<1>6. n.kind = "task" => \A r \in cloud : IsUp(r) => r.refs["secret"] # n.refs["secret"]
  <2>1. n.kind = "task" => n.refs["secret"] = c.old["secret"]
    BY <1>1 DEF GoodUpdate, Kinds
  <2>. QED  BY <1>1, <2>1 DEF Replaces
<1>7. World'
  BY <1>1, <1>6, WorldGrows
<1>8. Books'
  BY <1>1, <1>3, <1>4, <1>5, BooksGrow
<1>9. GoodUpdate(d)'
  <2>1. d.phase # "undo" /\ d.at <= 5
    <3>1. n.kind = "taskDef" => c.at = 1
      BY <1>1 DEF Replaces
    <3>. QED  BY <1>1, <3>1
  <2>2. \A k \in Kinds \ {"task", "taskDef"} : d.refs[k] = d.old[k]
    BY <1>1 DEF GoodUpdate
  <2>3. d.refs["tg"] = 0 /\ d.refs["rule"] = 0
    BY <1>1 DEF GoodUpdate, Kinds
  <2>4. Exists("secret", d.old["secret"])' =>
           \A r \in Things(c.tenant)' : r.id \in {d.refs[r.kind], d.old[r.kind]} \/ Stale(r)'
    <3>1. SUFFICES ASSUME Exists("secret", d.old["secret"])', NEW r \in Things(c.tenant)', ~Stale(r)'
                   PROVE  r.id \in {d.refs[r.kind], d.old[r.kind]}
      OBVIOUS
    <3>2. Exists("secret", c.old["secret"])
      BY <1>2, <3>1 DEF Exists
    <3>3. CASE r = n
      BY <3>3
    <3>4. CASE r \in Things(c.tenant)
      <4>1. ~Stale(r)
        BY <3>1 DEF Stale, Recorded, Brings
      <4>2. r.kind \in Kinds /\ r.id \in {c.refs[r.kind], c.old[r.kind]}
        BY <1>1, <3>2, <3>4, <4>1, ResourceIs DEF GoodUpdate, Things
      <4>. QED  BY <4>2
    <3>. QED  BY <1>1, <1>2, <3>1, <3>3, <3>4
  <2>5. ASSUME NEW r \in cloud', r.kind \in {"task", "taskDef"}, r.id = c.old[r.kind]
        PROVE  Away(r)' \/ Settled(r)'
    <3>1. r # n /\ r \in cloud
      <4>1. c.old["task"] <= born /\ c.old["taskDef"] <= born /\ born \in Nat
        BY <1>0, HeldIs DEF Kinds, Kept, IInv, Types
      <4>2. r.id # born + 1
        BY <2>5, <4>1
      <4>. QED  BY <1>2, <4>2 DEF Brings
    <3>2. (Away(r) => Away(r)') /\ UNCHANGED store /\ cloud \subseteq cloud'
      BY <1>1, <3>1, BringsNew DEF Brings
    <3>3. SUFFICES ASSUME ~Away(r) PROVE Settled(r)'
      BY <3>2
    <3>4. Settled(r)
      BY <1>1, <2>5, <3>1, <3>3 DEF GoodUpdate
    <3>5. Recorded(r)' /\ ~NoSecret(r.tenant)'
      BY <3>2, <3>4 DEF Settled, Recorded, NoSecret
    <3>6. ASSUME r.kind = "task", NEW x \in cloud', IsUp(x)', x.tenant = r.tenant,
                 Exists("secret", x.refs["secret"])'
          PROVE  x = r
      <4>1. n.kind # "task"
        BY <1>1, <2>5, <3>1, <3>3, <3>6 DEF Replaces, Away
      <4>2. x # n /\ x \in cloud /\ IsUp(x)
        BY <1>1, <1>2, <3>6, <4>1, BringsNew DEF IsUp
      <4>3. Exists("secret", x.refs["secret"])
        BY <1>2, <3>6 DEF Exists
      <4>. QED  BY <3>4, <3>6, <4>2, <4>3 DEF Settled
    <3>. QED  BY <2>5, <3>5, <3>6 DEF Settled
  <2>6. d.at # 6
    BY <1>1, <2>1
  <2>. QED  BY <1>1, <1>2, <2>1, <2>2, <2>3, <2>4, <2>5, <2>6 DEF GoodUpdate
<1>. QED  BY <1>7, <1>8, <1>9, KeptNext DEF Good

\* The new task definition,
LEMMA NewTaskDefKept ==
    ASSUME Kept, OneByOne, NEW p, Procs = {p}, Next, Updating(p), UpdateStep(p) = "newTaskDef",
           Make("taskDef", call[p].tenant, call[p].refs),
           Set(p, [Next1(p) EXCEPT !.refs["taskDef"] = born + 1]),
           UNCHANGED <<halted, kept, lost, store>>
    PROVE  Kept'
<1>1. PICK c : c = call[p]
  OBVIOUS
<1>2. PICK d : d = call'[p]
  OBVIOUS
<1>3. PICK b : b = Next1(p)
  OBVIOUS
<1>4. PICK x : x = [b EXCEPT !.refs["taskDef"] = born + 1]
  OBVIOUS
<1>5. PICK n : n = [kind |-> "taskDef", id |-> born + 1, tenant |-> c.tenant, refs |-> c.refs]
  OBVIOUS
<1>6. p \in Procs /\ born \in Nat /\ "taskDef" \in Kinds /\ "task" \in Kinds
  BY DEF Kept, IInv, Types, Kinds
<1>7. /\ Full(c) /\ GoodUpdate(c) /\ Replaces(c) /\ c.op = "update" /\ c.phase = "work"
      /\ mode = "public" /\ c.at = 1 /\ c.tenant \in Tenants /\ c.refs \in WideRefs
  BY <1>1, <1>6, UpdatingIs
<1>8. /\ Full(b) /\ b.op = c.op /\ b.tenant = c.tenant /\ b.refs = c.refs /\ b.old = c.old
      /\ b.at = 2 /\ b.phase = "work"
  BY <1>1, <1>3, <1>7 DEF Full, Next1
<1>9. d = x /\ UNCHANGED mode
  BY <1>2, <1>3, <1>4, <1>6, SetIs
<1>10. /\ d.op = c.op /\ d.tenant = c.tenant /\ d.old = c.old /\ d.at = 2 /\ d.phase = "work"
  BY <1>4, <1>8, <1>9 DEF Full
<1>19. d.refs = [c.refs EXCEPT !["taskDef"] = born + 1]
  BY <1>4, <1>8, <1>9 DEF Full
<1>11. /\ d.refs["taskDef"] = born + 1
       /\ \A j \in Kinds \ {"taskDef"} : d.refs[j] = c.refs[j]
  BY <1>6, <1>7, <1>19 DEF WideRefs
<1>12. Brings(n) /\ n.kind = "taskDef" /\ n.id = born + 1 /\ n.tenant = c.tenant
  BY <1>1, <1>5, <1>6, <1>7, <1>9, MakeBrings
<1>13. Replaces(d)'
  <2>0. n \in cloud'
    BY <1>12 DEF Brings
  <2>1. Has("taskDef", n.id, c.tenant)'
    BY <1>12, <2>0 DEF Has
  <2>2. c.old["taskDef"] # born + 1 /\ c.refs["task"] = c.old["task"]
    BY <1>1, <1>6, <1>7, HeldIs DEF Replaces
  <2>3. \A r \in cloud' : IsUp(r)' /\ r.refs["secret"] = c.old["secret"] => r.id = c.old["task"]
    <3>1. SUFFICES ASSUME NEW r \in cloud', IsUp(r)', r.refs["secret"] = c.old["secret"]
                   PROVE  r.id = c.old["task"]
      OBVIOUS
    <3>2. r \in cloud /\ IsUp(r)
      BY <1>12, <3>1 DEF Brings, IsUp
    <3>. QED  BY <1>7, <3>1, <3>2 DEF Replaces
  <2>. QED  BY <1>6, <1>10, <1>11, <1>12, <2>1, <2>2, <2>3 DEF Replaces
<1>14. /\ d.op = "update" /\ d.at = c.at + 1 /\ d.refs[n.kind] = n.id
       /\ \A j \in Kinds \ {n.kind} : d.refs[j] = c.refs[j]
       /\ c.refs[n.kind] = c.old[n.kind] /\ n.kind \in {"task", "taskDef"} /\ n.kind # "task"
  BY <1>7, <1>10, <1>11, <1>12 DEF Replaces
<1>. QED  BY <1>1, <1>2, <1>10, <1>12, <1>13, <1>14, UpdateMakes

\* and the new task, on what is there.
LEMMA RunNewKept ==
    ASSUME Kept, OneByOne, NEW p, Procs = {p}, Next, Updating(p), UpdateStep(p) = "runNew",
           Whole(call[p]), Make("task", call[p].tenant, [call[p].refs EXCEPT !["task"] = 0]),
           Set(p, [Next1(p) EXCEPT !.refs["task"] = born + 1]),
           UNCHANGED <<halted, kept, lost, store>>
    PROVE  Kept'
<1>1. PICK c : c = call[p]
  OBVIOUS
<1>2. PICK d : d = call'[p]
  OBVIOUS
<1>3. PICK b : b = Next1(p)
  OBVIOUS
<1>4. PICK x : x = [b EXCEPT !.refs["task"] = born + 1]
  OBVIOUS
<1>0. PICK refs : refs = [c.refs EXCEPT !["task"] = 0]
  OBVIOUS
<1>5. PICK n : n = [kind |-> "task", id |-> born + 1, tenant |-> c.tenant, refs |-> refs]
  OBVIOUS
<1>6. p \in Procs /\ born \in Nat /\ "taskDef" \in Kinds /\ "task" \in Kinds /\ "secret" \in Kinds
  BY DEF Kept, IInv, Types, Kinds
<1>7. /\ Full(c) /\ GoodUpdate(c) /\ Replaces(c) /\ c.op = "update" /\ c.phase = "work"
      /\ mode = "public" /\ c.at = 3 /\ c.tenant \in Tenants /\ c.refs \in WideRefs
  BY <1>1, <1>6, UpdatingIs
<1>8. /\ Full(b) /\ b.op = c.op /\ b.tenant = c.tenant /\ b.refs = c.refs /\ b.old = c.old
      /\ b.at = 4 /\ b.phase = "work"
  BY <1>1, <1>3, <1>7 DEF Full, Next1
<1>9. d = x /\ UNCHANGED mode
  BY <1>2, <1>3, <1>4, <1>6, SetIs
<1>10. /\ d.op = c.op /\ d.tenant = c.tenant /\ d.old = c.old /\ d.at = 4 /\ d.phase = "work"
  BY <1>4, <1>8, <1>9 DEF Full
<1>19. d.refs = [c.refs EXCEPT !["task"] = born + 1]
  BY <1>4, <1>8, <1>9 DEF Full
<1>11. /\ d.refs["task"] = born + 1
       /\ \A j \in Kinds \ {"task"} : d.refs[j] = c.refs[j]
       /\ refs \in WideRefs /\ refs["task"] = 0
       /\ \A j \in Kinds \ {"task"} : refs[j] = c.refs[j]
  BY <1>0, <1>6, <1>7, <1>19 DEF WideRefs
<1>12. Brings(n) /\ n.kind = "task" /\ n.id = born + 1 /\ n.tenant = c.tenant /\ n.refs = refs
  BY <1>0, <1>1, <1>5, <1>6, <1>7, <1>9, <1>11, MakeBrings
<1>13. /\ Exists("accessPoint", c.refs["accessPoint"]) /\ Exists("secret", c.refs["secret"])
       /\ Exists("sg", c.refs["sg"]) /\ Exists("taskDef", c.refs["taskDef"])
       /\ c.refs["secret"] = c.old["secret"]
  BY <1>1, <1>7 DEF Whole, Replaces, Has, Exists, GoodUpdate, Kinds
<1>14. \A j \in {"task", "tg", "rule"} : refs[j] = 0
  BY <1>7, <1>11 DEF GoodUpdate, Kinds
<1>16. Replaces(d)'
  <2>1. \A k, i : /\ Exists(k, i) => Exists(k, i)'
                  /\ \A t : Has(k, i, t) => Has(k, i, t)'
    BY <1>7, <1>12, BringsNew
  <2>2. Has("taskDef", c.refs["taskDef"], c.tenant)' /\ c.refs["taskDef"] # c.old["taskDef"]
    <3>1. Has("taskDef", c.refs["taskDef"], c.tenant) /\ c.refs["taskDef"] # c.old["taskDef"]
      BY <1>7 DEF Replaces
    <3>. QED  BY <2>1, <3>1
  <2>3. Exists("secret", c.old["secret"])'
    BY <1>13, <2>1
  <2>4. c.old["task"] # born + 1
    BY <1>1, <1>6, HeldIs
  <2>5. \A r \in cloud' : r.kind = "task" /\ r.id = c.old["task"] => r.id \in halted'
    BY <1>7, <1>12, <2>4 DEF Replaces, Brings
  <2>6. \A r \in cloud' : r.kind = "task" /\ r.id = born + 1 =>
           \A k \in Kinds \ {"task"} : r.refs[k] = c.refs[k]
    <3>1. \A r \in cloud' : r.id = born + 1 => r = n
      BY <1>12, BringsNew DEF Brings
    <3>. QED  BY <1>11, <1>12, <3>1
  <2>7. \A r \in cloud' : IsUp(r)' /\ r.refs["secret"] = c.old["secret"] => r.id = born + 1
    <3>1. SUFFICES ASSUME NEW r \in cloud', IsUp(r)', r.refs["secret"] = c.old["secret"], r # n
                   PROVE  FALSE
      BY <1>12
    <3>2. r \in cloud /\ IsUp(r)
      BY <1>12, <3>1 DEF Brings, IsUp
    <3>. QED  BY <1>7, <3>1, <3>2 DEF Replaces
  <2>. QED  BY <1>6, <1>10, <1>11, <2>2, <2>3, <2>5, <2>6, <2>7 DEF Replaces
<1>17. /\ d.op = "update" /\ d.at = c.at + 1 /\ d.refs[n.kind] = n.id
       /\ \A j \in Kinds \ {n.kind} : d.refs[j] = c.refs[j]
       /\ c.refs[n.kind] = c.old[n.kind] /\ n.kind \in {"task", "taskDef"}
  BY <1>7, <1>10, <1>11, <1>12 DEF Replaces
<1>18. /\ c.at = 3 /\ Exists("secret", c.old["secret"])
       /\ \A j \in {"task", "tg", "rule"} : n.refs[j] = 0
       /\ \A j \in Kinds \ {"task"} : n.refs[j] = c.refs[j]
  BY <1>7, <1>11, <1>12, <1>13, <1>14
<1>. QED  BY <1>1, <1>2, <1>10, <1>12, <1>16, <1>17, <1>18, UpdateMakes

\* An update that removes or stops something of its tenant's.
LEMMA UpdateShrinks ==
    ASSUME Kept, OneByOne, NEW p, Procs = {p}, Next, NEW c, c = call[p], c.op = "update",
           NEW d, d = call'[p], d.op = "update", d.phase # "save",
           d.tenant = c.tenant, d.old = c.old, d.refs = c.refs,
           cloud' \subseteq cloud, UNCHANGED <<mode, store>>, lost \subseteq lost',
           \A r \in cloud : IsUp(r)' => IsUp(r),
           \A r \in cloud : Away(r) => Away(r)',
           \A r \in cloud : r \in cloud' \/ (r.kind = "taskDef" /\ r.id = c.old["taskDef"] /\ c.at = 5),
           \A i \in lost' : i <= born',
           GoodUpdate(d)'
    PROVE  Kept'
<1>0. p \in Procs
  OBVIOUS
<1>1. GoodUpdate(c) /\ Replaces(c) /\ mode = "public" /\ c.tenant \in Tenants
  BY <1>0, HeldIs DEF Good, GoodUpdate
<1>2. \A r : Hand(c, r) => Hand(d, r)
  BY DEF Hand
<1>3. \A r \in cloud : r.kind # "rule"
  BY <1>1 DEF Kept, World, KindsOfMode
<1>4. World'
  BY <1>3, WorldShrinks
<1>5. \A t \in Tenants : NoSecret(t)' => NoSecret(t)
  BY DEF NoSecret
<1>7. Books'
  <2>1. \A r \in cloud' : Hand(c, r) => Hand(d, r) \/ Away(r)' \/ Settled(r)
    BY <1>2
  <2>2. mode # "local" => \A t \in Tenants :
           NoSecret(t)' /\ (d.op = "teardown" => d.tenant # t) =>
              \/ NoSecret(t) /\ (c.op = "teardown" => c.tenant # t)
              \/ \A r \in Things(t)' : Hand(d, r)
    BY <1>5
  <2>3. \A r \in cloud' : Away(r) => Away(r)'
    OBVIOUS
  <2>4. mode # "local" => \A r \in cloud' : IsUp(r)' => IsUp(r)
    OBVIOUS
  <2>. QED  BY <2>1, <2>2, <2>3, <2>4, BooksShrink
<1>. QED  BY <1>4, <1>7, KeptNext DEF Good

\* The old task is told to stop,
LEMMA StopOldKept ==
    ASSUME Kept, OneByOne, NEW p, Procs = {p}, Next, Updating(p), UpdateStep(p) = "stopOld",
           Unmake("task", call[p].old["task"], call[p].tenant), Set(p, Next1(p)),
           UNCHANGED <<born, kept, lost, store>>
    PROVE  Kept'
<1>1. PICK c : c = call[p]
  OBVIOUS
<1>2. PICK d : d = call'[p]
  OBVIOUS
<1>3. PICK x : x = Next1(p)
  OBVIOUS
<1>4. p \in Procs
  OBVIOUS
<1>5. /\ Full(c) /\ GoodUpdate(c) /\ Replaces(c) /\ c.op = "update" /\ c.phase = "work"
      /\ mode = "public" /\ c.at = 2
  BY <1>1, <1>4, UpdatingIs
<1>6. d = x /\ UNCHANGED mode
  BY <1>2, <1>3, <1>4, SetIs
<1>7. /\ d.op = "update" /\ d.tenant = c.tenant /\ d.old = c.old /\ d.refs = c.refs
      /\ d.at = 3 /\ d.phase = "work"
  BY <1>1, <1>3, <1>5, <1>6 DEF Full, Next1
<1>8. cloud' = cloud /\ halted' = halted \cup {i \in {c.old["task"]} : Exists("task", i)}
  BY <1>1, <1>5 DEF Unmake
<1>9. \A r \in cloud : (IsUp(r)' => IsUp(r)) /\ (Away(r) => Away(r)')
  BY <1>6, <1>8 DEF IsUp, Away
<1>10. \A r \in cloud : r.kind = "task" /\ r.id = c.old["task"] => r.id \in halted'
  BY <1>8 DEF Exists
<1>11. Replaces(d)'
  <2>1. Has("taskDef", c.refs["taskDef"], c.tenant)'
    BY <1>5, <1>8 DEF Replaces, Has
  <2>2. c.refs["taskDef"] # c.old["taskDef"] /\ c.refs["task"] = c.old["task"]
    BY <1>5 DEF Replaces
  <2>3. \A r \in cloud : IsUp(r)' /\ r.refs["secret"] = c.old["secret"] => FALSE
    BY <1>5, <1>9, <1>10 DEF Replaces, IsUp
  <2>. QED  BY <1>7, <1>8, <1>10, <2>1, <2>2, <2>3 DEF Replaces
<1>12. GoodUpdate(d)'
  <2>1. Things(c.tenant)' \subseteq Things(c.tenant)
    BY <1>8, <1>9 DEF Things
  <2>2. \A r : (Settled(r) => Settled(r)') /\ (Stale(r)' <=> Stale(r))
    BY <1>8, <1>9, SettledStays DEF Stale, Recorded
  <2>3. \A r \in cloud : r.kind \in {"task", "taskDef"} /\ r.id = c.old[r.kind] =>
           Away(r)' \/ Settled(r)'
    BY <1>5, <1>9, <2>2 DEF GoodUpdate
  <2>. QED  BY <1>5, <1>6, <1>7, <1>8, <1>11, <2>1, <2>2, <2>3 DEF GoodUpdate, Exists
<1>13. \A i \in lost' : i <= born'
  BY DEF Kept, World, RulesWired
<1>. QED  BY <1>1, <1>2, <1>5, <1>6, <1>7, <1>8, <1>9, <1>12, <1>13, UpdateShrinks

\* the new one is waited for,
LEMMA WaitNewKept ==
    ASSUME Kept, OneByOne, NEW p, Procs = {p}, Next, Updating(p), UpdateStep(p) = "waitNew",
           Set(p, Next1(p)), UNCHANGED <<cloud, halted, born, kept, lost, store>>
    PROVE  Kept'
<1>1. PICK c : c = call[p]
  OBVIOUS
<1>2. PICK d : d = call'[p]
  OBVIOUS
<1>3. PICK x : x = Next1(p)
  OBVIOUS
<1>4. p \in Procs
  OBVIOUS
<1>5. /\ Full(c) /\ GoodUpdate(c) /\ Replaces(c) /\ c.op = "update" /\ c.phase = "work"
      /\ mode = "public" /\ c.at = 4
  BY <1>1, <1>4, UpdatingIs
<1>6. d = x /\ UNCHANGED mode
  BY <1>2, <1>3, <1>4, SetIs
<1>7. /\ d.op = c.op /\ d.tenant = c.tenant /\ d.old = c.old /\ d.refs = c.refs
      /\ d.at = 5 /\ d.phase = "work"
  BY <1>1, <1>3, <1>5, <1>6 DEF Full, Next1
<1>8. Replaces(d)
  BY <1>5, <1>7 DEF Replaces
<1>9. GoodUpdate(d)
  BY <1>5, <1>7, <1>8 DEF GoodUpdate
<1>10. c.phase # "undo" /\ d.phase # "undo" /\ Good(d)
  BY <1>5, <1>7, <1>9 DEF Good
<1>. QED  BY <1>1, <1>2, <1>6, <1>7, <1>10, PlaceKept

\* and the old task definition goes, or is given up.
LEMMA DropOldKept ==
    ASSUME Kept, OneByOne, NEW p, Procs = {p}, Next, Updating(p), UpdateStep(p) = "dropOld",
           Set(p, [call[p] EXCEPT !.at = @ + 1, !.phase = "load"]), UNCHANGED <<born, kept, store>>,
           \/ Unmake("taskDef", call[p].old["taskDef"], call[p].tenant) /\ UNCHANGED lost
           \/ lost' = lost \cup {call[p].old["taskDef"]} /\ UNCHANGED <<cloud, halted>>
    PROVE  Kept'
<1>1. PICK c : c = call[p]
  OBVIOUS
<1>2. PICK d : d = call'[p]
  OBVIOUS
<1>3. PICK x : x = [c EXCEPT !.at = @ + 1, !.phase = "load"]
  OBVIOUS
<1>4. p \in Procs /\ "taskDef" \in Kinds /\ "task" \in Kinds
  BY DEF Kinds
<1>5. /\ Full(c) /\ GoodUpdate(c) /\ Replaces(c) /\ c.op = "update" /\ c.phase = "work"
      /\ mode = "public" /\ c.at = 5 /\ c.tenant \in Tenants
  BY <1>1, <1>4, UpdatingIs
<1>6. d = x /\ UNCHANGED mode
  BY <1>1, <1>2, <1>3, <1>4, SetIs
<1>7. /\ d.op = "update" /\ d.tenant = c.tenant /\ d.old = c.old /\ d.refs = c.refs
      /\ d.at = 6 /\ d.phase = "load"
  BY <1>3, <1>5, <1>6 DEF Full
<1>8. PICK i : i = c.old["taskDef"]
  OBVIOUS
<1>9. /\ cloud' \subseteq cloud /\ lost \subseteq lost'
      /\ \A r \in cloud : IsUp(r)' => IsUp(r)
      /\ \A r \in cloud : Away(r) => Away(r)'
      /\ \A r \in cloud : r \in cloud' \/ (r.kind = "taskDef" /\ r.id = i)
      /\ \A r \in cloud' : r.kind = "taskDef" /\ r.id = i /\ r.tenant = c.tenant => Away(r)'
      /\ \A j \in lost' : j <= born'
  <2>1. \A j \in lost : j <= born
    BY DEF Kept, World, RulesWired
  <2>2. i <= born
    BY <1>1, <1>4, <1>8, HeldIs
  <2>3. CASE Unmake("taskDef", c.old["taskDef"], c.tenant) /\ UNCHANGED lost
    BY <1>5, <1>6, <1>8, <2>1, <2>3, RemovalShrinks
  <2>4. CASE lost' = lost \cup {i} /\ UNCHANGED <<cloud, halted>>
    BY <1>6, <2>1, <2>2, <2>4 DEF IsUp, Away
  <2>. QED  BY <1>1, <1>8, <2>3, <2>4
<1>10. Has("taskDef", c.refs["taskDef"], c.tenant)' /\ c.refs["taskDef"] # i
  <2>1. Has("taskDef", c.refs["taskDef"], c.tenant) /\ c.refs["taskDef"] # i
    BY <1>5, <1>8 DEF Replaces
  <2>. QED  BY <1>9, <2>1 DEF Has
<1>11. Exists("secret", c.old["secret"]) /\ Exists("secret", c.old["secret"])'
  <2>1. Exists("secret", c.old["secret"])
    BY <1>5 DEF Replaces
  <2>. QED  BY <1>9, <2>1 DEF Exists
<1>12. Replaces(d)'
  <2>1. \A r \in cloud' : r.kind = "task" /\ r.id = c.old["task"] => r.id \in halted'
    BY <1>5, <1>9 DEF Replaces, IsUp
  <2>2. \A r \in cloud' : r.kind = "task" /\ r.id = c.refs["task"] =>
           \A k \in Kinds \ {"task"} : r.refs[k] = c.refs[k]
    BY <1>5, <1>9 DEF Replaces
  <2>3. \A r \in cloud' : IsUp(r)' /\ r.refs["secret"] = c.old["secret"] => r.id = c.refs["task"]
    BY <1>5, <1>9 DEF Replaces
  <2>. QED  BY <1>7, <1>8, <1>10, <1>11, <2>1, <2>2, <2>3 DEF Replaces
<1>13. \A r \in Things(c.tenant)' : r.id = c.refs[r.kind] \/ (Stale(r)' /\ r.id # i)
  <2>1. SUFFICES ASSUME NEW r \in Things(c.tenant)'
                 PROVE  r.id = c.refs[r.kind] \/ (Stale(r)' /\ r.id # i)
    OBVIOUS
  <2>2. r \in cloud' /\ r \in cloud /\ r.tenant = c.tenant /\ ~Away(r)' /\ r \in Things(c.tenant)
    BY <1>9, <2>1 DEF Things
  <2>3. r.kind \in Kinds /\ (r.id \in {c.refs[r.kind], c.old[r.kind]} \/ Stale(r))
        /\ (Stale(r)' <=> Stale(r))
    BY <1>5, <1>11, <2>2, ResourceIs DEF GoodUpdate, Stale, Recorded
  <2>4. CASE r.kind = "task"
    <3>1. r.id # c.old["task"]
      BY <1>5, <2>2, <2>4 DEF Replaces, Away, Things
    <3>. QED  BY <2>3, <2>4, <3>1 DEF Stale
  <2>5. CASE r.kind = "taskDef"
    BY <1>8, <1>9, <2>2, <2>3, <2>5
  <2>6. CASE r.kind \notin {"task", "taskDef"}
    BY <1>5, <2>3, <2>6 DEF GoodUpdate, Stale
  <2>. QED  BY <2>4, <2>5, <2>6
<1>14. GoodUpdate(d)'
  <2>1. \A k \in Kinds \ {"task", "taskDef"} : c.refs[k] = c.old[k]
    BY <1>5 DEF GoodUpdate
  <2>2. c.refs["tg"] = 0 /\ c.refs["rule"] = 0
    BY <1>5 DEF GoodUpdate
  <2>3. \A r \in cloud : r.kind = "secret" => r \in cloud'
    BY <1>9
  <2>4. \A r \in cloud' : IsUp(r)' => IsUp(r)
    BY <1>9
  <2>5. \A r : Settled(r) => Settled(r)'
    BY <1>9, <2>3, <2>4, SettledStays
  <2>6. \A r \in cloud' : r.kind \in {"task", "taskDef"} /\ r.id = c.old[r.kind] =>
           Away(r)' \/ Settled(r)'
    BY <1>5, <1>9, <2>5 DEF GoodUpdate
  <2>7. \A r \in Things(c.tenant)' :
           r.id \in {c.refs[r.kind], c.old[r.kind]} \/ Stale(r)'
    BY <1>13
  <2>. QED  BY <1>5, <1>6, <1>7, <1>8, <1>12, <1>13, <2>1, <2>2, <2>6, <2>7 DEF GoodUpdate
<1>. QED  BY <1>1, <1>2, <1>5, <1>6, <1>7, <1>8, <1>9, <1>14, UpdateShrinks

\* A step of an update.
LEMMA SwapKept ==
    ASSUME Kept, OneByOne, NEW p, Procs = {p}, Next, Swap(p)
    PROVE  Kept'
<1>1. Updating(p) /\ UNCHANGED <<kept, lost, store>>
  BY DEF Swap, history
<1>. QED  BY <1>1, NewTaskDefKept, StopOldKept, RunNewKept, WaitNewKept, DropOldKept DEF Swap

\* An update that fails gives up what it has made; only the old task definition
\* may stay without stopping it.
LEMMA SwapFailsKept ==
    ASSUME Kept, OneByOne, NEW p, Procs = {p}, Next, SwapFails(p)
    PROVE  Kept'
<1>1. Updating(p) /\ UNCHANGED <<cloud, halted, born, store>>
  BY DEF SwapFails
<1>2. p \in Procs /\ Full(call[p]) /\ call[p].op = "update"
  BY <1>1, UpdatingIs
<1>3. CASE GiveUp(p)
  BY <1>1, <1>2, <1>3, GiveUpKept
<1>4. CASE /\ UpdateStep(p) = "dropOld" /\ Set(p, [Next1(p) EXCEPT !.phase = "load"])
           /\ lost' = lost \cup {call[p].old["taskDef"]} /\ UNCHANGED kept
  <2>1. [Next1(p) EXCEPT !.phase = "load"] = [call[p] EXCEPT !.at = @ + 1, !.phase = "load"]
    BY DEF Next1
  <2>. QED  BY <1>1, <1>4, <2>1, DropOldKept
<1>. QED  BY <1>3, <1>4 DEF SwapFails

-----------------------------------------------------------------------------
(* What is stored. *)

\* A tenant whose secret exists has just that one, and it keeps his things.
LEMMA OwnSecret ==
    ASSUME Kept, NEW p \in Procs, NEW c, c = call[p],
           NEW i, i \in {c.refs["secret"], c.old["secret"]}, Exists("secret", i)
    PROVE  /\ ~NoSecret(c.tenant)
           /\ \A r \in cloud : r.tenant = c.tenant /\ Exists("secret", r.refs["secret"])
                 => r.refs["secret"] = i
<1>1. "secret" \in Kinds
  BY DEF Kinds
<1>2. PICK s \in cloud : s.kind = "secret" /\ s.id = i
  BY DEF Exists
<1>3. s.tenant = c.tenant
  BY <1>1, <1>2, HeldIs
<1>4. ASSUME NEW r \in cloud, r.tenant = c.tenant, NEW q \in cloud, q.kind = "secret",
             q.id = r.refs["secret"]
      PROVE  r.refs["secret"] = i
  <2>1. q.tenant = c.tenant
    BY <1>1, <1>4, MadeOfOwn
  <2>. QED  BY <1>2, <1>3, <1>4, <2>1 DEF Kept, World, OneEach
<1>. QED  BY <1>2, <1>3, <1>4 DEF NoSecret, Exists

\* A call ends with its record stored, and the record has all that is there
\* and is not given up for it.
LEMMA StoredKept ==
    ASSUME Kept, OneByOne, NEW p, Procs = {p}, Next, NEW c, c = call[p], Quit(p),
           UNCHANGED <<cloud, halted, born, kept>>, lost \subseteq lost',
           lost' = lost \/ mode = "public", \A i \in lost' : i <= born,
           NEW w, store' = [store EXCEPT ![c.tenant] = w],
           mode = "alb" /\ w # None => \A k \in Kinds : w.refs[k] # 0,
           \A r \in Things(c.tenant)' : w # None /\ w.refs[r.kind] = r.id,
           mode # "local" /\ NoSecret(c.tenant) => Things(c.tenant)' = {},
           mode = "public" => \A r \in cloud, q \in Things(c.tenant)' :
              r.tenant = c.tenant /\ IsUp(r) /\ Exists("secret", r.refs["secret"])
                 => q = r \/ q.id = r.refs[q.kind]
    PROVE  Kept'
<1>1. PICK d : d = call'[p]
  OBVIOUS
<1>2. d.op = "idle" /\ UNCHANGED mode /\ Good(d)'
  BY <1>1, QuitIs
<1>3. c.tenant \in Tenants /\ store \in [Tenants -> AgentRecord \cup {None}]
  BY HeldIs DEF Kept, TypeOK
<1>4. store'[c.tenant] = w /\ \A t \in Tenants : t # c.tenant => store'[t] = store[t]
  BY <1>3
<1>5. \A r \in cloud : Away(r) => Away(r)'
  BY <1>2 DEF Away
<1>6. \A t : Things(t)' \subseteq Things(t)
  BY <1>5 DEF Things
<1>7. \A r \in cloud : IsUp(r)' <=> IsUp(r)
  BY DEF IsUp
<1>8. \A k, i : Exists(k, i)' <=> Exists(k, i)
  BY DEF Exists
<1>9. \A t : NoSecret(t)' <=> NoSecret(t)
  BY DEF NoSecret
<1>10. \A r : Hand(c, r) => r.tenant = c.tenant
  BY DEF Hand
<1>11. World'
  <2>1. OneId' /\ KindsOfMode' /\ OneEach'
    BY <1>2 DEF Kept, World, OneId, KindsOfMode, OneEach
  <2>2. RulesWired'
    BY DEF Kept, World, RulesWired, KindsOfMode, Has
  <2>3. OneUp'
    BY <1>2, <1>7 DEF Kept, World, OneUp
  <2>4. FullRecords'
    BY <1>2, <1>4 DEF Kept, World, FullRecords
  <2>. QED  BY <2>1, <2>2, <2>3, <2>4 DEF World
<1>12. Accounted'
  <2>1. SUFFICES ASSUME NEW r \in cloud, ~Away(r)' PROVE Recorded(r)'
    BY DEF Accounted
  <2>2. r.tenant \in Tenants /\ ~Away(r) /\ r \in Things(r.tenant)'
    BY <1>5, <2>1, ResourceIs DEF Things
  <2>3. CASE r.tenant = c.tenant
    BY <1>4, <2>2, <2>3 DEF Recorded
  <2>4. CASE r.tenant # c.tenant
    <3>1. Recorded(r)
      BY <1>10, <2>2, <2>4, OneHand DEF Kept, Books, Accounted
    <3>. QED  BY <1>4, <2>2, <2>4, <3>1 DEF Recorded
  <2>. QED  BY <2>3, <2>4
<1>13. Keyed'
  <2>1. SUFFICES ASSUME mode # "local", NEW t \in Tenants, NoSecret(t), NEW r \in Things(t)'
                 PROVE  FALSE
    BY <1>2, <1>9 DEF Keyed
  <2>2. t # c.tenant /\ r \in Things(t)
    BY <1>6, <2>1
  <2>3. Hand(c, r)
    BY <2>1, <2>2, OneHand DEF Kept, Books, Keyed
  <2>. QED  BY <1>10, <2>1, <2>2, <2>3 DEF Things
<1>14. Worn'
  <2>1. SUFFICES ASSUME mode = "public", NEW r \in cloud, IsUp(r), Exists("secret", r.refs["secret"]),
                        NEW q \in Things(r.tenant)'
                 PROVE  q = r \/ q.id = r.refs[q.kind] \/ Stale(q)'
    BY <1>2, <1>7, <1>8 DEF Worn
  <2>2. CASE r.tenant = c.tenant
    BY <2>1, <2>2
  <2>3. CASE r.tenant # c.tenant
    <3>1. q \in cloud /\ q.tenant = r.tenant /\ q \in Things(r.tenant)
      BY <1>6, <2>1 DEF Things
    <3>2. ~Hand(c, q) /\ r.tenant \in Tenants
      BY <1>10, <2>3, <3>1, ResourceIs
    <3>3. q = r \/ q.id = r.refs[q.kind] \/ Stale(q)
      BY <2>1, <3>1, <3>2, OneHand DEF Kept, Books, Worn
    <3>4. Stale(q) => Stale(q)'
      BY <1>4, <2>3, <3>1, <3>2 DEF Stale, Recorded
    <3>. QED  BY <3>3, <3>4
  <2>. QED  BY <2>2, <2>3
<1>16. World' /\ Books'
  BY <1>11, <1>12, <1>13, <1>14 DEF Books
<1>. QED  BY <1>1, <1>2, <1>16, KeptNext

\* The record that a provision or a control writes: only the Supabase row
\* leaves something out, which no local agent has.
LEMMA WritesAll ==
    ASSUME Kept, NEW p \in Procs, NEW c, c = call[p], c.op \in {"provision", "control"},
           NEW w, w = ToWrite(c)
    PROVE  /\ mode # "local" => w.refs = c.refs
           /\ w.refs["task"] = c.refs["task"]
<1>1. PICK rec : rec = [refs |-> c.refs, running |-> c.running]
  OBVIOUS
<1>2. w = Stored(rec) /\ rec.refs = c.refs
  BY <1>1 DEF ToWrite
<1>3. mode \in {"alb", "public", "local"} /\ backend \in Stores(mode)
  BY DEF Kept, IInv, Types, TypeOK
<1>4. backend = "supabase" => mode = "local"
  BY <1>3 DEF Stores
<1>5. CASE backend # "supabase"
  BY <1>2, <1>5 DEF Stored
<1>6. CASE backend = "supabase"
  <2>1. c.refs \in Refs
    BY CallTyped DEF Kept
  <2>2. PICK refs : refs = [c.refs EXCEPT !["taskDef"] = 0, !["tg"] = 0, !["rule"] = 0]
    OBVIOUS
  <2>3. w = [rec EXCEPT !.refs = refs]
    BY <1>2, <1>6, <2>2 DEF Stored
  <2>4. w.refs = refs
    BY <1>1, <2>3
  <2>5. refs["task"] = c.refs["task"]
    BY <2>1, <2>2 DEF Refs, Kinds
  <2>. QED  BY <1>4, <1>6, <2>4, <2>5
<1>. QED  BY <1>5, <1>6

\* What a provision stores is all that it made.
LEMMA SaveProvision ==
    ASSUME Kept, NEW p \in Procs, NEW c, c = call[p], c.op = "provision", c.phase = "save",
           NEW w, w = ToWrite(c)
    PROVE  /\ mode = "alb" /\ w # None => \A k \in Kinds : w.refs[k] # 0
           /\ \A r \in Things(c.tenant) : w.refs[r.kind] = r.id
           /\ mode # "local" /\ NoSecret(c.tenant) => Things(c.tenant) = {}
           /\ mode = "public" => \A r \in cloud, q \in Things(c.tenant) :
                 r.tenant = c.tenant /\ IsUp(r) /\ Exists("secret", r.refs["secret"])
                    => q = r \/ q.id = r.refs[q.kind]
<1>1. GoodProvision(c) /\ c.at = 12
  BY HeldIs DEF Good, GoodProvision, StackOK
<1>2. \A k \in Kinds : c.at > CreateAt(k)
  BY <1>1 DEF CreateAt, Kinds
<1>3. \A k \in Kinds : Real(k) => c.refs[k] # 0 /\ (k # "task" => Has(k, c.refs[k], c.tenant))
  BY <1>1, <1>2 DEF GoodProvision, HasMade
<1>4. mode \in {"alb", "public", "local"}
  BY DEF Kept, IInv, Types
<1>5. mode = "alb" => \A k \in Kinds : Real(k)
  BY DEF Real, AlbDeps
<1>6. (mode # "local" => Real("secret")) /\ Real("task") /\ "secret" \in Kinds /\ "task" \in Kinds
  BY <1>4 DEF Real, AlbDeps, PublicDeps, LocalDeps, Kinds, Wiring
<1>7. TookName(c)
  BY <1>3, <1>6 DEF TookName
<1>8. \A r \in Things(c.tenant) : r \in cloud /\ r.id = c.refs[r.kind]
  BY <1>1, <1>7 DEF GoodProvision, AllInHand, Hand, Things
<1>9. (mode # "local" => w.refs = c.refs) /\ w.refs["task"] = c.refs["task"]
  BY WritesAll
<1>10. mode = "local" => \A r \in cloud : r.kind = "task"
  BY DEF Kept, World, KindsOfMode
<1>11. mode # "local" => Exists("secret", c.refs["secret"])
  BY <1>3, <1>6 DEF Has, Exists
<1>12. ASSUME mode = "public", NEW r \in cloud, NEW q \in Things(c.tenant),
              r.tenant = c.tenant, IsUp(r), Exists("secret", r.refs["secret"])
       PROVE  q = r \/ q.id = r.refs[q.kind]
  <2>1. r.refs["secret"] = c.refs["secret"] /\ c.refs["secret"] # 0
    BY <1>3, <1>6, <1>11, <1>12, OwnSecret
  <2>2. r.id = c.refs["task"] /\ \A k \in Kinds \ {"task"} : r.refs[k] = c.refs[k]
    BY <1>1, <1>12, <2>1 DEF GoodProvision, OwnTask
  <2>3. q \in cloud /\ q.id = c.refs[q.kind] /\ q.kind \in Kinds
    BY <1>8, <1>12, ResourceIs
  <2>. QED  BY <2>2, <2>3 DEF Kept, World, OneId
<1>13. mode = "alb" /\ w # None => \A k \in Kinds : w.refs[k] # 0
  BY <1>3, <1>5, <1>9
<1>14. \A r \in Things(c.tenant) : w.refs[r.kind] = r.id
  BY <1>8, <1>9, <1>10
<1>15. mode # "local" => ~NoSecret(c.tenant)
  BY <1>11, OwnSecret
<1>. QED  BY <1>12, <1>13, <1>14, <1>15

\* What a record names is there or was once.
LEMMA RecordBorn ==
    ASSUME Kept, NEW t \in Tenants, store[t] # None, NEW k \in Kinds
    PROVE  store[t].refs[k] <= born
<1>1. store[t].refs[k] \in Nat /\ born \in Nat
  BY DEF Kept, IInv, Types, WideRecord, WideRefs
<1>2. Claim(store[t].refs[k], t)
  BY DEF Claim
<1>. QED  BY <1>1, <1>2 DEF Kept, IInv, Claimed

\* What an update stores is what it put in place of the old, and of another
\* task definition that the record named.
LEMMA SaveUpdate ==
    ASSUME Kept, NEW p, Procs = {p}, NEW c, c = call[p], c.op = "update", c.phase = "save",
           store[c.tenant] # None, NEW w, w = ToWrite(c)
    PROVE  /\ mode = "public"
           /\ \A r \in Things(c.tenant) : r.id \in Overwritten(c) \/ w.refs[r.kind] = r.id
           /\ ~NoSecret(c.tenant)
           /\ \A i \in Overwritten(c) : i <= born
           /\ \A r \in cloud, q \in Things(c.tenant) :
                 r.tenant = c.tenant /\ IsUp(r) /\ Exists("secret", r.refs["secret"])
                    => q.id \in Overwritten(c) \/ q = r \/ q.id = r.refs[q.kind]
<1>0. p \in Procs
  OBVIOUS
<1>1. GoodUpdate(c) /\ Replaces(c) /\ c.at = 6 /\ c.seen = store /\ c.tenant \in Tenants
  BY <1>0, HeldIs DEF Good, GoodUpdate
<1>2. \A r \in Things(c.tenant) : r.id = c.refs[r.kind] \/ r.id \in Overwritten(c)
  <2>1. Overwritten(c) = {store[c.tenant].refs["taskDef"]} \ {c.old["taskDef"]}
    BY <1>1 DEF Overwritten
  <2>. QED  BY <1>1, <2>1 DEF GoodUpdate, Stale, Recorded, Things
<1>3. /\ Exists("secret", c.old["secret"])
      /\ \A r \in cloud : r.kind = "task" /\ r.id = c.refs["task"] =>
            \A k \in Kinds \ {"task"} : r.refs[k] = c.refs[k]
      /\ \A r \in cloud : IsUp(r) /\ r.refs["secret"] = c.old["secret"] => r.id = c.refs["task"]
  BY <1>1 DEF Replaces
<1>4. PICK had : had = store[c.tenant].refs
  OBVIOUS
<1>5. had \in Refs
  BY <1>1, <1>4 DEF Kept, TypeOK, AgentRecord
<1>6. w.refs = [had EXCEPT !["task"] = c.refs["task"], !["taskDef"] = c.refs["taskDef"]]
  BY <1>1, <1>4 DEF ToWrite
<1>7. /\ w.refs["task"] = c.refs["task"] /\ w.refs["taskDef"] = c.refs["taskDef"]
      /\ \A k \in Kinds \ {"task", "taskDef"} : w.refs[k] = had[k]
  BY <1>5, <1>6 DEF Refs, Kinds
<1>8. ASSUME NEW r \in Things(c.tenant), r.id \notin Overwritten(c) PROVE w.refs[r.kind] = r.id
  <2>1. r \in cloud /\ r.tenant = c.tenant /\ ~Away(r) /\ r.kind \in Kinds
    BY ResourceIs DEF Things
  <2>2. CASE r.kind \in {"task", "taskDef"}
    BY <1>2, <1>7, <1>8, <2>2
  <2>3. CASE r.kind \notin {"task", "taskDef"}
    <3>1. ~Hand(c, r)
      BY <2>3 DEF Hand
    <3>2. Recorded(r)
      BY <2>1, <3>1, OneHand DEF Kept, Books, Accounted
    <3>. QED  BY <1>4, <1>7, <2>1, <2>3, <3>2 DEF Recorded
  <2>. QED  BY <2>2, <2>3
<1>9. ASSUME NEW r \in cloud, NEW q \in Things(c.tenant), q.id \notin Overwritten(c),
             r.tenant = c.tenant, IsUp(r), Exists("secret", r.refs["secret"])
      PROVE  q = r \/ q.id = r.refs[q.kind]
  <2>1. r.refs["secret"] = c.old["secret"]
    BY <1>0, <1>3, <1>9, OwnSecret
  <2>2. r.id = c.refs["task"] /\ r.kind = "task"
    BY <1>3, <1>9, <2>1 DEF IsUp
  <2>3. q \in cloud /\ q.id = c.refs[q.kind] /\ q.kind \in Kinds
    BY <1>2, <1>9, ResourceIs DEF Things
  <2>. QED  BY <1>3, <2>2, <2>3 DEF Kept, World, OneId
<1>10. ~NoSecret(c.tenant)
  BY <1>0, <1>3, OwnSecret
<1>11. \A i \in Overwritten(c) : i <= born
  BY <1>1, <1>4, RecordBorn DEF Overwritten, Kinds
<1>. QED  BY <1>1, <1>8, <1>9, <1>10, <1>11 DEF GoodUpdate

\* What is only given up is there no more for the books.
LEMMA ThingsStay ==
    ASSUME UNCHANGED <<cloud, halted, kept, mode>>, lost \subseteq lost', NEW t
    PROVE  /\ \A r \in Things(t)' : r \in Things(t) /\ r.id \notin lost'
           /\ lost' = lost => Things(t)' = Things(t)
  BY DEF Things, Away

\* A call stores its record, and only an update that finds none gives up.
LEMMA SaveKept ==
    ASSUME Kept, OneByOne, NEW p, Procs = {p}, Next, Save(p)
    PROVE  Kept'
<1>0. p \in Procs
  OBVIOUS
<1>1. PICK c : c = call[p]
  OBVIOUS
<1>2. PICK w : w = ToWrite(c)
  OBVIOUS
<1>3. /\ c.op # "idle" /\ c.phase = "save" /\ UNCHANGED <<cloud, halted, born>>
      /\ Writes(c) => /\ \/ store' = [c.seen EXCEPT ![c.tenant] = w]
                         \/ store' = [store EXCEPT ![c.tenant] = w]
                      /\ Quit(p) /\ UNCHANGED kept /\ lost' = lost \cup Overwritten(c)
      /\ ~Writes(c) => GiveUp(p) /\ UNCHANGED store
  BY <1>1, <1>2 DEF Save, FileWrite, RowWrite
<1>4. c.seen = store /\ c.tenant \in Tenants /\ Good(c)
  BY <1>0, <1>1, <1>3, HeldIs DEF Good
<1>5. CASE ~Writes(c)
  BY <1>1, <1>3, <1>5, GiveUpKept
<1>6. SUFFICES ASSUME Writes(c) PROVE Kept'
  BY <1>5
<1>7. /\ store' = [store EXCEPT ![c.tenant] = w] /\ Quit(p) /\ UNCHANGED kept
      /\ lost' = lost \cup Overwritten(c) /\ \A i \in lost : i <= born
      /\ c.op # "update" => lost' = lost
      /\ c.op # "teardown" => w # None
  <2>1. c.op # "teardown" => w \in AgentRecord
    BY <1>0, <1>1, <1>2, <1>6, WriteTyped DEF Kept
  <2>2. \A i \in lost : i <= born
    BY DEF Kept, World, RulesWired
  <2>3. c.op # "update" => Overwritten(c) = {}
    BY DEF Overwritten
  <2>. QED  BY <1>3, <1>4, <1>6, <2>1, <2>2, <2>3, ProvisionerAssumption
<1>8. CASE c.op = "teardown"
  <2>1. GoodRead(c) /\ w = None /\ c.at > 8
    BY <1>2, <1>3, <1>4, <1>8 DEF Good, GoodRead, ToWrite
  <2>2. c.at \in Nat
    BY <1>0, <1>1, HeldIs
  <2>3. Things(c.tenant) = {}
    <3>1. SUFFICES ASSUME NEW r \in Things(c.tenant) PROVE FALSE
      OBVIOUS
    <3>2. r.kind \in Kinds /\ TeardownAt(r.kind) >= c.at
      BY <1>1, <1>8, <3>1, LeaversRecorded
    <3>3. TeardownAt(r.kind) \in 1 .. 8
      BY <3>2 DEF TeardownAt
    <3>. QED  BY <2>1, <2>2, <3>2, <3>3
  <2>4. UNCHANGED <<cloud, halted, born, kept>> /\ lost' = lost
    BY <1>3, <1>7, <1>8
  <2>5. UNCHANGED mode /\ Things(c.tenant)' = {}
    BY <1>0, <1>7, <2>3, <2>4, QuitIs, ThingsStay
  <2>. QED  BY <1>1, <1>7, <2>1, <2>4, <2>5, StoredKept
<1>9. CASE c.op \in {"provision", "control", "update"}
  <2>1. UNCHANGED <<cloud, halted, born, kept>> /\ w # None
    BY <1>3, <1>7, <1>9
  <2>0. /\ \A r \in Things(c.tenant)' : r \in Things(c.tenant) /\ r.id \notin lost'
        /\ c.op # "update" => lost' = lost /\ Things(c.tenant)' = Things(c.tenant)
    BY <1>0, <1>3, <1>7, <2>1, QuitIs, ThingsStay
  <2>2. CASE c.op = "provision"
    <3>1. \A r \in Things(c.tenant) : w # None /\ w.refs[r.kind] = r.id
      BY <1>0, <1>1, <1>2, <1>3, <2>1, <2>2, SaveProvision
    <3>2. mode = "alb" /\ w # None => \A k \in Kinds : w.refs[k] # 0
      BY <1>0, <1>1, <1>2, <1>3, <2>2, SaveProvision
    <3>3. mode # "local" /\ NoSecret(c.tenant) => Things(c.tenant) = {}
      BY <1>0, <1>1, <1>2, <1>3, <2>2, SaveProvision
    <3>4. mode = "public" => \A r \in cloud, q \in Things(c.tenant) :
              r.tenant = c.tenant /\ IsUp(r) /\ Exists("secret", r.refs["secret"])
                 => q = r \/ q.id = r.refs[q.kind]
      BY <1>0, <1>1, <1>2, <1>3, <2>2, SaveProvision
    <3>5. lost' = lost /\ lost \subseteq lost' /\ \A i \in lost' : i <= born
      BY <1>7, <2>2
    <3>6. Things(c.tenant)' = Things(c.tenant)
      BY <2>0, <2>2
    <3>7. \A r \in Things(c.tenant)' : w # None /\ w.refs[r.kind] = r.id
      BY <3>1, <3>6
    <3>8. mode # "local" /\ NoSecret(c.tenant) => Things(c.tenant)' = {}
      BY <3>3, <3>6
    <3>9. mode = "public" => \A r \in cloud, q \in Things(c.tenant)' :
              r.tenant = c.tenant /\ IsUp(r) /\ Exists("secret", r.refs["secret"])
                 => q = r \/ q.id = r.refs[q.kind]
      BY <3>4, <3>6
    <3>. QED  BY <1>1, <1>7, <2>1, <3>2, <3>5, <3>7, <3>8, <3>9, StoredKept
  <2>3. CASE c.op = "control"
    <3>1. GoodRead(c) /\ mode = "local" /\ w.refs["task"] = c.refs["task"]
      BY <1>0, <1>1, <1>2, <1>4, <2>3, WritesAll DEF Good, GoodRead
    <3>2. ASSUME NEW r \in Things(c.tenant) PROVE w # None /\ w.refs[r.kind] = r.id
      <4>1. r \in cloud /\ r.tenant = c.tenant /\ ~Away(r)
        BY DEF Things
      <4>2. r.kind = "task"
        BY <3>1, <4>1 DEF Kept, World, KindsOfMode
      <4>3. Recorded(r)
        BY <1>1, <2>3, <4>1, AtRest, OneHand DEF Kept, Books, Accounted
      <4>. QED  BY <2>1, <3>1, <4>1, <4>2, <4>3 DEF Recorded, GoodRead
    <3>3. mode # "alb" /\ mode # "public"
      BY <3>1
    <3>4. /\ lost' = lost /\ lost \subseteq lost' /\ \A i \in lost' : i <= born
          /\ \A r \in Things(c.tenant)' : w # None /\ w.refs[r.kind] = r.id
      BY <1>7, <2>0, <2>3, <3>2
    <3>. QED  BY <1>1, <1>7, <2>1, <3>1, <3>3, <3>4, StoredKept
  <2>4. CASE c.op = "update"
    <3>1. store[c.tenant] # None
      BY <1>4, <1>6, <2>4 DEF Writes
    <3>2. /\ mode = "public"
          /\ \A r \in Things(c.tenant) : r.id \in Overwritten(c) \/ w.refs[r.kind] = r.id
          /\ ~NoSecret(c.tenant)
          /\ \A i \in Overwritten(c) : i <= born
          /\ \A r \in cloud, q \in Things(c.tenant) :
                r.tenant = c.tenant /\ IsUp(r) /\ Exists("secret", r.refs["secret"])
                   => q.id \in Overwritten(c) \/ q = r \/ q.id = r.refs[q.kind]
      BY <1>1, <1>2, <1>3, <2>4, <3>1, SaveUpdate
    <3>3. \A r \in Things(c.tenant)' : w # None /\ w.refs[r.kind] = r.id
      BY <1>7, <2>0, <2>1, <3>2
    <3>4. \A r \in cloud, q \in Things(c.tenant)' :
             r.tenant = c.tenant /\ IsUp(r) /\ Exists("secret", r.refs["secret"])
                => q = r \/ q.id = r.refs[q.kind]
      BY <1>7, <2>0, <3>2
    <3>5. /\ lost \subseteq lost' /\ \A i \in lost' : i <= born
          /\ lost' = lost \/ mode = "public"
      BY <1>7, <3>2
    <3>6. /\ mode = "alb" /\ w # None => \A k \in Kinds : w.refs[k] # 0
          /\ mode # "local" /\ NoSecret(c.tenant) => Things(c.tenant)' = {}
          /\ mode = "public" => \A r \in cloud, q \in Things(c.tenant)' :
                r.tenant = c.tenant /\ IsUp(r) /\ Exists("secret", r.refs["secret"])
                   => q = r \/ q.id = r.refs[q.kind]
      BY <3>2, <3>4
    <3>. QED  BY <1>1, <1>7, <2>1, <3>3, <3>5, <3>6, StoredKept
  <2>. QED  BY <1>9, <2>2, <2>3, <2>4
<1>. QED  BY <1>0, <1>1, <1>3, <1>8, <1>9, HeldIs

-----------------------------------------------------------------------------
(* The task that stopped goes for good. *)

\* One that is up is not it, and nothing is made of a task.
LEMMA TaskGoneKept ==
    ASSUME Kept, OneByOne, NEW p, Procs = {p}, Next, TaskGone
    PROVE  Kept'
<1>0. p \in Procs
  OBVIOUS
<1>1. PICK c : c = call[p]
  OBVIOUS
<1>2. PICK d : d = call'[p]
  OBVIOUS
<1>3. PICK dead \in cloud : /\ dead.kind = "task" /\ dead.id \in halted
                            /\ cloud' = cloud \ {dead} /\ halted' = halted \ {dead.id}
  BY DEF TaskGone
<1>4. mode # "local" /\ d = c /\ UNCHANGED <<mode, born, kept, lost, store>>
  BY <1>1, <1>2 DEF TaskGone, settings, history
<1>5. \A r \in cloud' : r \in cloud /\ r.id # dead.id
  BY <1>3 DEF Kept, World, OneId
<1>6. \A r \in cloud' : (IsUp(r)' <=> IsUp(r)) /\ (Away(r)' <=> Away(r))
  BY <1>3, <1>4, <1>5 DEF IsUp, Away
<1>7. \A k, i, t : k # "task" => (Has(k, i, t)' <=> Has(k, i, t))
  BY <1>3 DEF Has
<1>8. \A k, i : k # "task" => (Exists(k, i)' <=> Exists(k, i))
  BY <1>3 DEF Exists
<1>9. \A t : Things(t)' = Things(t)
  <2>1. Away(dead)
    BY <1>3, <1>4 DEF Away
  <2>. QED  BY <1>3, <1>6, <2>1 DEF Things
<1>10. \A t : NoSecret(t)' <=> NoSecret(t)
  BY <1>3 DEF NoSecret
<1>11. ~IsUp(dead) /\ Full(c) /\ Good(c)
  BY <1>0, <1>1, <1>3, HeldIs DEF IsUp
<1>12. World'
  <2>1. \A i \in lost' : i <= born'
    BY <1>4 DEF Kept, World, RulesWired
  <2>2. \A r \in cloud' : r.kind = "rule" => Has("tg", r.refs["tg"], r.tenant)'
    BY <1>3, <1>7 DEF Kept, World, RulesWired
  <2>3. cloud' \subseteq cloud /\ \A r \in cloud' : IsUp(r)' => IsUp(r)
    BY <1>3, <1>6
  <2>. QED  BY <1>4, <2>1, <2>2, <2>3, WorldShrinks
<1>13. Books'
  <2>1. Accounted'
    <3>1. \A r : Recorded(r)' <=> Recorded(r)
      BY <1>4 DEF Recorded
    <3>. QED  BY <1>1, <1>2, <1>4, <1>5, <1>6, <3>1, OneHand DEF Kept, Books, Accounted, Handy
  <2>2. Keyed'
    BY <1>1, <1>2, <1>4, <1>9, <1>10, OneHand DEF Kept, Books, Keyed, Handy, Leaving
  <2>3. Worn'
    <3>1. \A q : Stale(q)' <=> Stale(q)
      BY <1>4 DEF Stale, Recorded
    <3>. QED  BY <1>1, <1>2, <1>4, <1>5, <1>6, <1>8, <1>9, <3>1, OneHand
              DEF Kept, Books, Worn, Handy
  <2>. QED  BY <2>1, <2>2, <2>3 DEF Books
<1>14. c.op = "provision" => GoodProvision(c)'
  <2>1. SUFFICES ASSUME c.op = "provision", GoodProvision(c) PROVE GoodProvision(c)'
    BY <1>11 DEF Good
  <2>2. HasMade(c)'
    <3>1. \A k \in Kinds : Real(k)' <=> Real(k)
      BY <1>4 DEF Real
    <3>. QED  BY <1>7, <2>1, <3>1 DEF GoodProvision, HasMade
  <2>3. AllInHand(c)'
    BY <1>4, <1>9, <2>1 DEF GoodProvision, AllInHand, TookName
  <2>4. OwnTask(c)'
    BY <1>4, <1>5, <1>6, <2>1 DEF GoodProvision, OwnTask
  <2>5. DataFirst(c)'
    BY <1>4, <1>5, <2>1 DEF GoodProvision, DataFirst
  <2>6. StackOK(c)'
    BY <2>1 DEF GoodProvision, StackOK
  <2>. QED  BY <2>1, <2>2, <2>3, <2>4, <2>5, <2>6 DEF GoodProvision
<1>15. c.op \in {"teardown", "control"} => GoodRead(c)'
  BY <1>4, <1>9, <1>10, <1>11 DEF Good, GoodRead
<1>16. c.op = "update" => GoodUpdate(c)'
  <2>1. SUFFICES ASSUME c.op = "update", GoodUpdate(c), Replaces(c) PROVE GoodUpdate(c)'
    BY <1>11 DEF Good, GoodUpdate
  <2>2. \A r \in cloud' : r.id \in halted => r.id \in halted'
    BY <1>3, <1>5
  <2>3. Replaces(c)'
    BY <1>5, <1>6, <1>7, <1>8, <2>1, <2>2 DEF Replaces
  <2>4. \A q : Stale(q)' <=> Stale(q)
    BY <1>4 DEF Stale, Recorded
  <2>5. \A r : Settled(r) => Settled(r)'
    <3>1. cloud' \subseteq cloud /\ UNCHANGED store /\ \A r \in cloud' : IsUp(r)' => IsUp(r)
      BY <1>3, <1>4, <1>6
    <3>2. \A r \in cloud : r.kind = "secret" => r \in cloud'
      BY <1>3
    <3>. QED  BY <3>1, <3>2, SettledStays
  <2>6. \A r \in cloud' : r.kind \in {"task", "taskDef"} /\ r.id = c.old[r.kind] =>
           Away(r)' \/ Settled(r)'
    BY <1>5, <1>6, <2>1, <2>5 DEF GoodUpdate
  <2>. QED  BY <1>4, <1>8, <1>9, <2>1, <2>3, <2>4, <2>6 DEF GoodUpdate
<1>17. Good(d)'
  BY <1>4, <1>11, <1>14, <1>15, <1>16 DEF Good
<1>. QED  BY <1>2, <1>12, <1>13, <1>17, KeptNext

\* A task that stops by itself: what it was made of stays.
LEMMA TaskExitsKept ==
    ASSUME Kept, OneByOne, NEW p, Procs = {p}, Next, TaskExits
    PROVE  Kept'
<1>0. p \in Procs
  OBVIOUS
<1>1. PICK c : c = call[p]
  OBVIOUS
<1>2. PICK d : d = call'[p]
  OBVIOUS
<1>3. /\ d = c /\ UNCHANGED <<cloud, mode, born, kept, lost, store>>
      /\ halted \subseteq halted'
  BY <1>1, <1>2 DEF TaskExits, settings, history
<1>4. Full(c) /\ Good(c) /\ \A i \in lost' : i <= born
  BY <1>0, <1>1, <1>3, HeldIs DEF Kept, World, RulesWired
<1>5. /\ World' /\ Books'
      /\ \A r \in cloud : Away(r) => Away(r)'
      /\ \A t : Things(t)' \subseteq Things(t)
  BY <1>1, <1>2, <1>3, <1>4, Still
<1>6. /\ \A r : IsUp(r)' => IsUp(r)
      /\ \A t : NoSecret(t)' <=> NoSecret(t)
      /\ \A k, i, t : (Has(k, i, t)' <=> Has(k, i, t)) /\ (Exists(k, i)' <=> Exists(k, i))
      /\ \A q : (Stale(q)' <=> Stale(q)) /\ \A k \in Kinds : Real(k)' <=> Real(k)
  BY <1>3 DEF IsUp, NoSecret, Has, Exists, Stale, Recorded, Real
<1>7. c.op = "provision" => GoodProvision(c)'
  <2>1. SUFFICES ASSUME c.op = "provision", GoodProvision(c) PROVE GoodProvision(c)'
    BY <1>4 DEF Good
  <2>2. StackOK(c)' /\ HasMade(c)'
    BY <1>6, <2>1 DEF GoodProvision, StackOK, HasMade
  <2>3. AllInHand(c)'
    BY <1>3, <1>5, <2>1 DEF GoodProvision, AllInHand, TookName
  <2>4. OwnTask(c)'
    BY <1>3, <1>6, <2>1 DEF GoodProvision, OwnTask
  <2>5. DataFirst(c)'
    BY <1>3, <2>1 DEF GoodProvision, DataFirst
  <2>. QED  BY <2>1, <2>2, <2>3, <2>4, <2>5 DEF GoodProvision
<1>8. c.op \in {"teardown", "control"} => GoodRead(c)'
  BY <1>3, <1>4, <1>5, <1>6 DEF Good, GoodRead
<1>9. c.op = "update" => GoodUpdate(c)'
  <2>1. SUFFICES ASSUME c.op = "update", GoodUpdate(c), Replaces(c) PROVE GoodUpdate(c)'
    BY <1>4 DEF Good, GoodUpdate
  <2>2. Replaces(c)'
    BY <1>3, <1>6, <2>1 DEF Replaces
  <2>3. \A r \in cloud : r.kind = "secret" => r \in cloud'
    BY <1>3
  <2>4. \A r : Settled(r) => Settled(r)'
    BY <1>3, <1>6, <2>3, SettledStays
  <2>5. \A r \in cloud : r.kind \in {"task", "taskDef"} /\ r.id = c.old[r.kind] =>
           Away(r)' \/ Settled(r)'
    BY <1>5, <2>1, <2>4 DEF GoodUpdate
  <2>. QED  BY <1>3, <1>5, <1>6, <2>1, <2>2, <2>5 DEF GoodUpdate
<1>10. Good(d)'
  BY <1>3, <1>4, <1>7, <1>8, <1>9 DEF Good
<1>. QED  BY <1>2, <1>5, <1>10, KeptNext

-----------------------------------------------------------------------------
(* All of it together. *)

\* A process is killed, a store fails or a teardown throws: what the call
\* holds is given up.
LEMMA CutShortKept ==
    ASSUME Kept, OneByOne, NEW p, Procs = {p}, Next, Kill(p) \/ SaveFails(p) \/ DeleteFails(p)
    PROVE  Kept'
<1>1. /\ GiveUp(p) /\ call[p].op # "idle"
      /\ UNCHANGED <<cloud, halted, born, store>>
  BY DEF Kill, SaveFails, DeleteFails, TearingDown, Goes
<1>. QED  BY <1>1, GiveUpKept

\* Nothing happens.
LEMMA StutterKept ==
    ASSUME Kept, OneByOne, UNCHANGED vars
    PROVE  Kept'
<1>1. UNCHANGED <<mode, backend, cloud, halted, targets, born, store, call, spent, kept, lost>>
  BY DEF vars, settings, world, history, network
<1>2. IInv' /\ TypeOK'
  BY StepIInv, StepTyped DEF Kept, OneByOne
<1>3. /\ \A r \in cloud : (Away(r)' <=> Away(r)) /\ (IsUp(r)' <=> IsUp(r))
      /\ \A t : (NoSecret(t)' <=> NoSecret(t)) /\ (Leaving(t)' <=> Leaving(t))
      /\ \A k, i, t : (Has(k, i, t)' <=> Has(k, i, t)) /\ (Exists(k, i)' <=> Exists(k, i))
      /\ \A r : (Recorded(r)' <=> Recorded(r)) /\ (Handy(r)' <=> Handy(r))
      /\ \A r : (Stale(r)' <=> Stale(r)) /\ (Settled(r)' <=> Settled(r))
      /\ \A k : Real(k)' <=> Real(k)
  BY <1>1 DEF Away, IsUp, NoSecret, Leaving, Has, Exists, Recorded, Handy, Stale, Settled, Real
<1>4. \A t : Things(t)' = Things(t)
  BY <1>1, <1>3 DEF Things
<1>5. World'
  BY <1>1, <1>3
  DEF Kept, World, OneId, KindsOfMode, OneEach, RulesWired, OneUp, FullRecords
<1>6. Books'
  BY <1>1, <1>3, <1>4 DEF Kept, Books, Accounted, Keyed, Worn
<1>7. ASSUME NEW c, Good(c) PROVE Good(c)'
  <2>1. GoodProvision(c) => GoodProvision(c)'
    BY <1>1, <1>3, <1>4
    DEF GoodProvision, StackOK, HasMade, AllInHand, TookName, OwnTask, DataFirst
  <2>2. GoodRead(c) => GoodRead(c)'
    BY <1>1, <1>3, <1>4 DEF GoodRead
  <2>3. GoodUpdate(c) => GoodUpdate(c)'
    BY <1>1, <1>3, <1>4 DEF GoodUpdate, Replaces
  <2>. QED  BY <1>1, <1>7, <2>1, <2>2, <2>3 DEF Good
<1>. QED  BY <1>1, <1>2, <1>5, <1>6, <1>7 DEF Kept

\* At first there is nothing.
LEMMA InitKept ==
    ASSUME Init
    PROVE  Kept
<1>1. IInv /\ TypeOK
  BY InitIInv, InitTyped
<1>2. cloud = {} /\ lost = {} /\ \A t \in Tenants : store[t] = None
  BY DEF Init
<1>3. \A p \in Procs : call[p].op = "idle"
  <2>1. PICK t \in Tenants : t = CHOOSE u \in Tenants : TRUE
    BY ProvisionerAssumption
  <2>. QED  BY <2>1, NoCallFields DEF Init
<1>4. World
  BY <1>2 DEF World, OneId, KindsOfMode, OneEach, RulesWired, OneUp, FullRecords
<1>5. Books
  BY <1>2 DEF Books, Accounted, Keyed, Worn, Things
<1>. QED  BY <1>1, <1>3, <1>4, <1>5 DEF Kept, Good

\* Every step keeps the books, one action at a time.
LEMMA StepKept ==
    ASSUME Kept, OneByOne, [Next]_vars
    PROVE  Kept'
<1>1. PICK p : Procs = {p}
  BY DEF OneByOne, OneAtATime
<1>2. CASE UNCHANGED vars
  BY <1>2, StutterKept
<1>3. CASE Next
  <2>1. CASE TaskExits \/ TaskGone
    BY <1>1, <1>3, <2>1, TaskExitsKept, TaskGoneKept
  <2>2. CASE BeginCall(p)
    BY <1>1, <1>3, <2>2, BeginCallKept
  <2>3. CASE Kill(p) \/ SaveFails(p) \/ DeleteFails(p)
    BY <1>1, <1>3, <2>3, CutShortKept
  <2>4. CASE ProvisionStep(p)
    <3>1. CASE Waited(p, "healthy") \/ Waited(p, "ip") \/ Waited(p, "targetHealthy")
      BY <1>1, <1>3, <3>1, WaitedKept
    <3>2. CASE Create(p) \/ SgRulesFail(p) \/ DockerRunFails(p)
      BY <1>1, <1>3, <3>2, CreateKept, HalfMadeKept
    <3>3. CASE RegisterIp(p) \/ Throws(p) \/ Provisioned(p)
      BY <1>1, <1>3, <3>3, RegisterIpKept, ThrowsKept, ProvisionedKept
    <3>4. CASE Undo(p) \/ UndoFails(p) \/ Undone(p)
      BY <1>1, <1>3, <3>4, UndoKept, UndoFailsKept, UndoneKept
    <3>. QED  BY <2>4, <3>1, <3>2, <3>3, <3>4
              DEF ProvisionStep, WaitForHealthy, ResolveTaskIp, WaitTargetHealthy
  <2>5. CASE Delete(p) \/ TornDown(p)
    BY <1>1, <1>3, <2>5, DeleteKept, TornDownKept
  <2>6. CASE \E v \in {"start", "stop", "restart"} : DockerControls(p, v)
    BY <1>1, <1>3, <2>6, DockerControlsKept
  <2>7. CASE Swap(p) \/ SwapFails(p)
    BY <1>1, <1>3, <2>7, SwapKept, SwapFailsKept
  <2>8. CASE Load(p) \/ Save(p)
    BY <1>1, <1>3, <2>8, LoadKept, SaveKept
  <2>. QED  BY <1>1, <1>3, <2>1, <2>2, <2>3, <2>4, <2>5, <2>6, <2>7, <2>8 DEF Next, CallStep
<1>. QED  BY <1>2, <1>3

\* What a call will store or undo is in its hand.
LEMMA KeptForgetsNothing ==
    ASSUME Kept
    PROVE  NothingForgotten
<1>1. SUFFICES ASSUME NEW r \in cloud, ~Away(r), ~Recorded(r) PROVE InHand(r)
  BY DEF NothingForgotten, Away
<1>2. PICK p \in Procs : Hand(call[p], r)
  BY <1>1 DEF Kept, Books, Accounted, Handy
<1>. QED  BY <1>2 DEF Hand, InHand

\* Nothing that costs money is forgotten, whatever fails or is killed on the way
\* except between a group and its rollback, and however many agents there are:
\* what exists is named by a record, held by the call, on its way out, or given
\* up by a call that swallowed an error or was cut short.
THEOREM NothingIsForgotten == OneByOne => (Spec => []NothingForgotten)
<1>1. OneByOne /\ Kept /\ [Next]_vars => Kept'
  BY StepKept
<1>2. OneByOne => OneByOne'
  BY DEF OneByOne, OneAtATime, OwnNames, OwnPriorities
<1>. QED  BY <1>1, <1>2, InitKept, KeptForgetsNothing, PTL DEF Spec
-----------------------------------------------------------------------------
(* Nothing is pulled away, with one call at a time and no task that stays. *)

\* What the tasks of one agent share, and what a task names.
Shared == {"accessPoint", "secret", "sg"}
Parts == Shared \cup {"taskDef"}

\* A task that runs has all that it was made of.
Rooted == \A r \in cloud : IsUp(r) => \A k \in Parts : r.refs[k] # 0 => Exists(k, r.refs[k])

\* No two tasks run on one task definition.
OwnDefs ==
    \A r, q \in cloud : r.kind = "task" /\ q.kind = "task" /\ r.refs["taskDef"] # 0
                        /\ r.refs["taskDef"] = q.refs["taskDef"] => r = q

\* Agents share all three or nothing.
Alike(a, w) == (\E k \in Shared : a[k] # 0 /\ a[k] = w[k]) => \A k \in Shared : a[k] = w[k]

Unnamed(k, i) == \A t \in Tenants : store[t] # None => store[t].refs[k] # i

\* The record of a task definition names the task that runs on it.
SureRecord(w) ==
    /\ \A k \in Parts \cup {"task"} : w[k] # 0
    /\ \A r \in cloud : r.kind = "task" =>
          Alike(r.refs, w) /\ (r.refs["taskDef"] = w["taskDef"] => r.id = w["task"])

SureRecords == \A t \in Tenants : store[t] # None => SureRecord(store[t].refs)

\* Its task does not run.
TaskDown(c) == \A r \in cloud : IsUp(r) => r.id # c.refs["task"]

\* A rollback that has come to what the task was made of.
PastTask(c) == c.phase = "undo" /\ Len(c.undo) <= 4

\* No task but its own has what a provision made, and its own is down when what
\* it was made of goes.
SureProvision(c) ==
    /\ \A k \in Parts : c.refs[k] # 0 =>
          /\ Unnamed(k, c.refs[k])
          /\ \A r \in cloud : r.kind = "task" /\ r.refs[k] = c.refs[k] => r.id = c.refs["task"]
    /\ \A r \in cloud : r.kind = "task" /\ r.id = c.refs["task"] =>
          \A k \in Parts : r.refs[k] = c.refs[k]
    /\ PastTask(c) => TaskDown(c)

\* The task goes before what it runs on, and the group before what it protects.
SureTeardown(c) ==
    /\ c.at > 4 => TaskDown(c)
    /\ c.at > 6 => \A r \in cloud : r.kind = "task" => r.refs["sg"] # c.refs["sg"]

\* The old task definition is the old task's, the new one nobody else's.
SureUpdate(c) ==
    /\ c.refs["task"] # 0
    /\ \A r \in cloud : r.kind = "task" /\ r.refs["taskDef"] # 0 /\ r.refs["taskDef"] = c.old["taskDef"] =>
          r.id = c.old["task"]
    /\ c.at >= 2 =>
          /\ Unnamed("taskDef", c.refs["taskDef"])
          /\ \A r \in cloud : r.kind = "task" /\ r.refs["taskDef"] = c.refs["taskDef"] =>
                c.at >= 4 /\ r.id = c.refs["task"]
    /\ \A t \in Tenants : store[t] # None => Alike(c.refs, store[t].refs)

SureCall(c) ==
    /\ c.op = "provision" => SureProvision(c)
    /\ c.op = "teardown" => SureTeardown(c)
    /\ c.op = "update" => SureUpdate(c)

Sure ==
    mode # "local" =>
        Rooted /\ OwnDefs /\ SureRecords /\ \A p \in Procs : SureCall(call[p])

-----------------------------------------------------------------------------

\* No task comes, and what goes no running task was made of.
LEMMA SureShrinks ==
    ASSUME Kept, Sure, NEW p, Procs = {p}, NEW d, d = call'[p],
           mode # "local", UNCHANGED <<mode, store>>,
           \A r \in cloud' : r.kind = "task" => r \in cloud,
           \A r \in cloud' : IsUp(r)' => IsUp(r),
           \A q \in cloud : q.kind \in Parts =>
               q \in cloud' \/ \A r \in cloud' : IsUp(r)' => r.refs[q.kind] # q.id,
           SureCall(d)'
    PROVE  Sure'
<1>1. Rooted /\ OwnDefs /\ SureRecords
  BY DEF Sure
<1>2. Rooted'
  <2>1. SUFFICES ASSUME NEW r \in cloud', IsUp(r)', NEW k \in Parts, r.refs[k] # 0
                 PROVE  Exists(k, r.refs[k])'
    BY DEF Rooted
  <2>2. r \in cloud /\ IsUp(r)
    BY <2>1 DEF IsUp
  <2>3. PICK q \in cloud : q.kind = k /\ q.id = r.refs[k]
    BY <1>1, <2>1, <2>2 DEF Rooted, Exists
  <2>4. q \in cloud'
    BY <2>1, <2>3
  <2>. QED  BY <2>3, <2>4 DEF Exists
<1>3. OwnDefs'
  BY <1>1 DEF OwnDefs
<1>4. SureRecords'
  BY <1>1 DEF SureRecords, SureRecord
<1>. QED  BY <1>2, <1>3, <1>4 DEF Sure

\* A new task is made of what is there and has its task definition for itself.
LEMMA SureGrows ==
    ASSUME Kept, Sure, NEW p, Procs = {p}, NEW d, d = call'[p], mode # "local",
           NEW n, Brings(n),
           n.kind = "task" =>
              /\ \A k \in Parts : n.refs[k] # 0 => Exists(k, n.refs[k])
              /\ \A r \in cloud : r.kind = "task" => r.refs["taskDef"] # n.refs["taskDef"]
              /\ \A t \in Tenants : store[t] # None =>
                    Alike(n.refs, store[t].refs) /\ store[t].refs["taskDef"] # n.refs["taskDef"],
           SureCall(d)'
    PROVE  Sure'
<1>1. Rooted /\ OwnDefs /\ SureRecords
  BY DEF Sure
<1>2. /\ UNCHANGED <<mode, store, halted>> /\ \A r \in cloud' : r = n \/ r \in cloud
      /\ \A k, i : Exists(k, i) => Exists(k, i)'
  BY BringsNew DEF Brings
<1>3. Rooted'
  BY <1>1, <1>2 DEF Rooted, IsUp
<1>4. OwnDefs'
  BY <1>1, <1>2 DEF OwnDefs
<1>5. SureRecords'
  BY <1>1, <1>2 DEF SureRecords, SureRecord
<1>. QED  BY <1>2, <1>3, <1>4, <1>5 DEF Sure

\* A call that goes on with what it has, while no task comes.
LEMMA SureStays ==
    ASSUME NEW c, SureCall(c), NEW d, d.op = c.op, d.old = c.old, d.refs = c.refs,
           UNCHANGED store,
           \A r \in cloud' : r.kind = "task" => r \in cloud,
           \A r \in cloud' : IsUp(r)' => IsUp(r),
           d.op = "provision" /\ PastTask(d) => TaskDown(d)',
           d.op = "teardown" /\ d.at > 4 => TaskDown(d)',
           d.op = "teardown" /\ d.at > 6 =>
              \A r \in cloud' : r.kind = "task" => r.refs["sg"] # c.refs["sg"],
           d.op = "update" => (d.at >= 2 => c.at >= 2) /\ (c.at >= 4 => d.at >= 4)
    PROVE  SureCall(d)'
<1>1. \A k, i : Unnamed(k, i)' <=> Unnamed(k, i)
  BY DEF Unnamed
<1>2. d.op = "provision" => SureProvision(d)'
  BY <1>1 DEF SureCall, SureProvision
<1>3. d.op = "teardown" => SureTeardown(d)'
  BY DEF SureCall, SureTeardown
<1>4. d.op = "update" => SureUpdate(d)'
  BY <1>1 DEF SureCall, SureUpdate
<1>. QED  BY <1>2, <1>3, <1>4 DEF SureCall

\* Nothing happens but to the call.
LEMMA SureQuiet ==
    ASSUME Kept, Sure, NEW p, Procs = {p}, NEW d, d = call'[p], mode # "local",
           UNCHANGED <<mode, store, cloud, halted>>, SureCall(d)'
    PROVE  Sure'
<1>1. \A r \in cloud' : IsUp(r)' => IsUp(r)
  BY DEF IsUp
<1>. QED  BY <1>1, SureShrinks

\* The call ends, with nothing stored.
LEMMA QuitSure ==
    ASSUME Kept, Sure, NEW p, Procs = {p}, mode # "local", Quit(p),
           UNCHANGED <<cloud, halted, store>>
    PROVE  Sure'
<1>1. PICK d : d = call'[p]
  OBVIOUS
<1>2. d.op = "idle" /\ UNCHANGED mode /\ p \in Procs
  BY <1>1, QuitIs
<1>3. SureCall(d)'
  BY <1>2 DEF SureCall
<1>. QED  BY <1>1, <1>2, <1>3, SureQuiet

-----------------------------------------------------------------------------

\* A provision begins with nothing, a teardown at its first step, and an update
\* with what the only task on its task definition was made of.
LEMMA BeginCallSure ==
    ASSUME Kept, Sure, NEW p, Procs = {p}, mode # "local", BeginCall(p)
    PROVE  Sure'
<1>0. PICK t \in Tenants :
         \/ Provision(p, t)
         \/ \E f \in DeleteData : Read(p, "teardown", t, f)
         \/ Update(p, t)
  BY DEF BeginCall
<1>1. PICK b : b = NoCall(t)
  OBVIOUS
<1>2. PICK d : d = call'[p]
  OBVIOUS
<1>3. /\ Full(b) /\ b.phase = "work" /\ b.at = 1 /\ b.refs = NoRef /\ \A k \in Kinds : NoRef[k] = 0
  BY <1>1, NoCallFields
<1>4. CASE Provision(p, t)
  <2>1. /\ d.op = "provision" /\ d.phase = "work" /\ d.refs = NoRef
        /\ UNCHANGED <<cloud, mode, store, halted>>
    BY <1>1, <1>2, <1>3, <1>4, BeginsCall DEF Provision
  <2>2. \A r \in cloud : r.id # 0
    BY ResourceIs
  <2>3. SureProvision(d)'
    BY <1>3, <2>1, <2>2 DEF SureProvision, PastTask, Parts, Shared, Kinds
  <2>4. SureCall(d)'
    BY <2>1, <2>3 DEF SureCall
  <2>. QED  BY <1>2, <2>1, <2>4, SureQuiet
<1>5. ASSUME NEW f \in DeleteData, Read(p, "teardown", t, f)
      PROVE  Sure'
  <2>1. PICK e : e = [b EXCEPT !.refs = store[t].refs, !.old = store[t].refs,
                               !.running = store[t].running, !.data = f]
    OBVIOUS
  <2>2. Full(e) /\ e.at = 1
    BY <1>3, <2>1 DEF Full
  <2>3. Begin(p, "teardown", t, e)
    BY <1>1, <1>5, <2>1 DEF Read
  <2>4. d.op = "teardown" /\ d.at = 1 /\ UNCHANGED <<cloud, mode, store, halted>>
    BY <1>2, <2>2, <2>3, BeginsCall
  <2>5. SureCall(d)'
    BY <2>4 DEF SureCall, SureTeardown
  <2>. QED  BY <1>2, <2>4, <2>5, SureQuiet
<1>6. CASE Update(p, t)
  <2>1. PICK x \in Up(t) :
           Begin(p, "update", t, [b EXCEPT !.old = [x.refs EXCEPT !["task"] = x.id],
                                           !.refs = [x.refs EXCEPT !["task"] = x.id]])
    BY <1>1, <1>6 DEF Update
  <2>2. PICK refs : refs = [x.refs EXCEPT !["task"] = x.id]
    OBVIOUS
  <2>3. PICK e : e = [b EXCEPT !.old = refs, !.refs = refs]
    OBVIOUS
  <2>4. x \in cloud /\ x.kind = "task" /\ x.id # 0
    BY ResourceIs DEF Up, Of
  <2>5. refs["task"] = x.id /\ \A k \in Kinds \ {"task"} : refs[k] = x.refs[k]
    <3>1. x.refs \in WideRefs
      BY <2>4 DEF Kept, IInv, Types, WideResource
    <3>. QED  BY <2>2, <3>1 DEF WideRefs, Kinds
  <2>6. Full(e) /\ e.at = 1 /\ e.refs = refs /\ e.old = refs
    BY <1>3, <2>3 DEF Full
  <2>7. Begin(p, "update", t, e)
    BY <2>1, <2>2, <2>3
  <2>8. /\ d.op = "update" /\ d.at = 1 /\ d.refs = refs /\ d.old = refs
        /\ UNCHANGED <<cloud, mode, store, halted>>
    BY <1>2, <2>6, <2>7, BeginsCall
  <2>9. \A k \in Parts : refs[k] = x.refs[k]
    BY <2>5 DEF Parts, Shared, Kinds
  <2>10. \A r \in cloud : r.kind = "task" /\ r.refs["taskDef"] # 0 /\ r.refs["taskDef"] = refs["taskDef"] =>
            r.id = refs["task"]
    BY <2>4, <2>5, <2>9 DEF Sure, OwnDefs, Parts
  <2>11. \A u \in Tenants : store[u] # None => Alike(refs, store[u].refs)
    <3>1. \A u \in Tenants : store[u] # None => Alike(x.refs, store[u].refs)
      BY <2>4 DEF Sure, SureRecords, SureRecord
    <3>. QED  BY <2>9, <3>1 DEF Alike, Parts
  <2>12. SureCall(d)'
    BY <2>4, <2>5, <2>8, <2>10, <2>11 DEF SureCall, SureUpdate
  <2>. QED  BY <1>2, <2>8, <2>12, SureQuiet
<1>. QED  BY <1>0, <1>4, <1>5, <1>6

\* A call that goes on with what it has, while nothing happens to the resources.
LEMMA PlaceSure ==
    ASSUME Kept, Sure, NEW p, Procs = {p}, mode # "local", NEW c, c = call[p], NEW d, d = call'[p],
           UNCHANGED <<mode, store, cloud, halted>>,
           d.op = c.op, d.old = c.old, d.refs = c.refs,
           d.op = "provision" /\ PastTask(d) => TaskDown(c),
           d.op # "provision" => d.at = c.at
    PROVE  Sure'
<1>1. SureCall(c)
  BY DEF Sure
<1>2. \A r : IsUp(r)' <=> IsUp(r)
  BY DEF IsUp
<1>3. \A r \in cloud' : r.kind = "task" => r \in cloud
  OBVIOUS
<1>4. \A r \in cloud' : IsUp(r)' => IsUp(r)
  BY <1>2
<1>5. d.op = "teardown" /\ d.at > 4 => TaskDown(d)'
  BY <1>1, <1>2 DEF SureCall, SureTeardown, TaskDown
<1>6. d.op = "teardown" /\ d.at > 6 => \A r \in cloud' : r.kind = "task" => r.refs["sg"] # c.refs["sg"]
  BY <1>1 DEF SureCall, SureTeardown
<1>7. d.op = "provision" /\ PastTask(d) => TaskDown(d)'
  BY <1>2 DEF TaskDown
<1>8. SureCall(d)'
  BY <1>1, <1>3, <1>4, <1>5, <1>6, <1>7, SureStays
<1>. QED  BY <1>8, SureQuiet

\* The store is read, or provisionAgent or teardownAgent returns.
LEMMA TurnSure ==
    ASSUME Kept, Sure, NEW p, Procs = {p}, mode # "local",
           Load(p) \/ Provisioned(p) \/ TornDown(p)
    PROVE  Sure'
<1>1. PICK c : c = call[p]
  OBVIOUS
<1>2. PICK d : d = call'[p]
  OBVIOUS
<1>3. PICK x : Set(p, x) /\ \/ x = [c EXCEPT !.phase = "save", !.seen = store]
                            \/ x = [c EXCEPT !.phase = "load", !.running = TRUE]
                            \/ x = [c EXCEPT !.phase = "load"]
  BY <1>1 DEF Load, Provisioned, TornDown
<1>4. p \in Procs /\ Full(c) /\ UNCHANGED <<cloud, store, halted>>
  BY <1>1, HeldIs DEF Load, Provisioned, TornDown, world
<1>5. d = x /\ UNCHANGED mode
  BY <1>2, <1>3, <1>4, SetIs
<1>6. d.op = c.op /\ d.refs = c.refs /\ d.old = c.old /\ d.at = c.at /\ d.phase # "undo"
  BY <1>3, <1>4, <1>5 DEF Full
<1>7. ~PastTask(d)
  BY <1>6 DEF PastTask
<1>. QED  BY <1>1, <1>2, <1>4, <1>5, <1>6, <1>7, PlaceSure

\* A poll ends well, or the address is registered.
LEMMA WaitedSure ==
    ASSUME Kept, Sure, NEW p, Procs = {p}, mode # "local",
           RegisterIp(p) \/ \E step \in Polls : Waited(p, step)
    PROVE  Sure'
<1>1. PICK c : c = call[p]
  OBVIOUS
<1>2. PICK d : d = call'[p]
  OBVIOUS
<1>3. PICK b : b = Next1(p)
  OBVIOUS
<1>4. PICK x : Set(p, x) /\ (x = b \/ \E u : x = [b EXCEPT !.undo = u])
  BY <1>3 DEF RegisterIp, Waited
<1>5. /\ p \in Procs /\ Full(c) /\ UNCHANGED <<cloud, store, halted>>
      /\ c.op = "provision" /\ c.phase = "work"
  BY <1>1, HeldIs DEF RegisterIp, Waited, Creating, Goes
<1>6. Full(b) /\ b.op = c.op /\ b.refs = c.refs /\ b.old = c.old /\ b.phase = "work"
  BY <1>1, <1>3, <1>5 DEF Full, Next1
<1>7. d = x /\ UNCHANGED mode
  BY <1>2, <1>4, <1>5, SetIs
<1>8. d.op = c.op /\ d.refs = c.refs /\ d.old = c.old /\ ~PastTask(d)
  BY <1>4, <1>6, <1>7 DEF Full, PastTask
<1>9. d.op = "provision" /\ UNCHANGED <<mode, store, cloud, halted>>
  BY <1>5, <1>7, <1>8
<1>. QED  BY <1>1, <1>2, <1>8, <1>9, PlaceSure

\* A provision that throws before its task has none to undo.
LEMMA NoTaskYet ==
    ASSUME Kept, NEW p \in Procs, NEW c, c = call[p], Creating(p), Len(c.undo) <= 4
    PROVE  TaskDown(c)
<1>1. GoodProvision(c) /\ c.phase = "work" /\ c.at \in Nat \ {0} /\ c.at <= 11
  BY HeldIs, CreatePlaces DEF Creating, Goes, Good
<1>2. c.at <= 5
  BY <1>1 DEF GoodProvision, StackOK, StackAt
<1>3. c.refs["task"] = 0
  BY <1>1, <1>2 DEF GoodProvision, HasMade, CreateAt, Kinds
<1>. QED  BY <1>3, ResourceIs DEF TaskDown

LEMMA ThrowsSure ==
    ASSUME Kept, Sure, NEW p, Procs = {p}, mode # "local", Throws(p)
    PROVE  Sure'
<1>1. PICK c : c = call[p]
  OBVIOUS
<1>2. PICK d : d = call'[p]
  OBVIOUS
<1>3. PICK x : x = [c EXCEPT !.phase = "undo"]
  OBVIOUS
<1>4. /\ p \in Procs /\ Full(c) /\ UNCHANGED <<cloud, store, halted>> /\ Creating(p) /\ Set(p, x)
      /\ c.op = "provision"
  BY <1>1, <1>3, HeldIs DEF Throws, world, Creating, Goes
<1>5. d = x /\ UNCHANGED mode
  BY <1>2, <1>4, SetIs
<1>6. d.op = c.op /\ d.refs = c.refs /\ d.old = c.old /\ d.undo = c.undo
  BY <1>3, <1>4, <1>5 DEF Full
<1>7. PastTask(d) => TaskDown(c)
  BY <1>1, <1>4, <1>6, NoTaskYet DEF PastTask
<1>8. d.op # "teardown" /\ d.op # "update"
  BY <1>4, <1>6
<1>. QED  BY <1>1, <1>2, <1>4, <1>5, <1>6, <1>7, <1>8, PlaceSure

-----------------------------------------------------------------------------

\* The call after a step that made, found or faked what is not its task: no
\* task can have been made of what is new.
LEMMA PartInHand ==
    ASSUME Kept, Sure, NEW p \in Procs, mode # "local", NEW c, c = call[p], Creating(p),
           NEW k \in Kinds, k = CreateStep(p), k # "task",
           NEW d, d.op = "provision", d.phase = "work",
           \A j \in Kinds \ {k} : d.refs[j] = c.refs[j],
           k \in Parts => d.refs[k] = born + 1,
           UNCHANGED store, \A r \in cloud' : r.kind = "task" => r \in cloud
    PROVE  SureCall(d)'
<1>1. c.op = "provision" /\ "task" \in Kinds /\ Parts \subseteq Kinds /\ born \in Nat
  BY CreatingIs DEF Parts, Shared, Kinds, Kept, IInv, Types
<1>2. SureProvision(c)
  BY <1>1 DEF Sure, SureCall
<1>3. d.refs["task"] = c.refs["task"]
  BY <1>1
<1>4. \A j, i : Unnamed(j, i)' <=> Unnamed(j, i)
  BY DEF Unnamed
<1>5. ASSUME NEW j \in Parts, d.refs[j] # 0
      PROVE  /\ Unnamed(j, d.refs[j])'
             /\ \A r \in cloud' : r.kind = "task" /\ r.refs[j] = d.refs[j] => r.id = d.refs["task"]
  <2>1. CASE j = k
    <3>1. Unnamed(j, born + 1)
      <4>1. SUFFICES ASSUME NEW t \in Tenants, store[t] # None PROVE store[t].refs[j] # born + 1
        BY DEF Unnamed
      <4>2. store[t].refs[j] <= born /\ store[t].refs[j] \in Nat
        BY <1>1, <4>1, RecordBorn DEF Kept, IInv, Types, WideRecord, WideRefs
      <4>. QED  BY <1>1, <4>2
    <3>2. \A r \in cloud : r.refs[j] # born + 1
      <4>1. SUFFICES ASSUME NEW r \in cloud PROVE r.refs[j] # born + 1
        OBVIOUS
      <4>2. r.refs[j] \in Nat /\ r.refs[j] <= born
        BY <1>1, ResourceIs
      <4>. QED  BY <1>1, <4>2
    <3>. QED  BY <1>4, <2>1, <3>1, <3>2
  <2>2. CASE j # k
    <3>1. d.refs[j] = c.refs[j]
      BY <1>1, <2>2
    <3>. QED  BY <1>2, <1>3, <1>4, <1>5, <3>1 DEF SureProvision
  <2>. QED  BY <2>1, <2>2
<1>6. ASSUME NEW r \in cloud', r.kind = "task", r.id = d.refs["task"], NEW j \in Parts
      PROVE  r.refs[j] = d.refs[j]
  <2>1. r \in cloud /\ c.refs["task"] # 0
    BY <1>3, <1>6, ResourceIs
  <2>2. k \notin Parts
    <3>1. CreateAt("task") < c.at /\ c.at = CreateAt(k)
      BY <1>1, <2>1, CreatingIs
    <3>. QED  BY <3>1 DEF CreateAt, Parts, Shared
  <2>. QED  BY <1>1, <1>2, <1>3, <1>6, <2>1, <2>2 DEF SureProvision
<1>7. ~PastTask(d)
  BY DEF PastTask
<1>8. SureProvision(d)'
  BY <1>5, <1>6, <1>7 DEF SureProvision, PastTask
<1>. QED  BY <1>8 DEF SureCall

\* A kind that is faked, or a target group that is found.
LEMMA FoundSure ==
    ASSUME Kept, Sure, NEW p, Procs = {p}, mode # "local", Creating(p),
           NEW k \in Kinds, k = CreateStep(p), k \in {"tg", "rule"},
           NEW i \in Nat, Set(p, Gets(p, k, i, GotUndo(p, k))),
           UNCHANGED <<cloud, halted, store>>
    PROVE  Sure'
<1>1. PICK c : c = call[p]
  OBVIOUS
<1>2. PICK d : d = call'[p]
  OBVIOUS
<1>3. p \in Procs
  OBVIOUS
<1>4. /\ d.op = "provision" /\ d.phase = "work" /\ UNCHANGED mode
      /\ \A j \in Kinds \ {k} : d.refs[j] = c.refs[j]
  BY <1>1, <1>2, <1>3, GotIs
<1>5. k # "task" /\ k \notin Parts
  BY DEF Parts, Shared
<1>6. SureCall(d)'
  BY <1>1, <1>3, <1>4, <1>5, PartInHand
<1>. QED  BY <1>2, <1>4, <1>6, SureQuiet

\* What is made; a task is made of all that the call has.
LEMMA MadeSure ==
    ASSUME Kept, Sure, NEW p, Procs = {p}, mode # "local", Creating(p),
           NEW k \in Kinds, k = CreateStep(p), Real(k),
           Set(p, Gets(p, k, born + 1, GotUndo(p, k))), Make(k, call[p].tenant, call[p].refs),
           UNCHANGED <<halted, kept, lost, store>>
    PROVE  Sure'
<1>1. PICK c : c = call[p]
  OBVIOUS
<1>2. PICK d : d = call'[p]
  OBVIOUS
<1>3. PICK n : n = [kind |-> k, id |-> born + 1, tenant |-> c.tenant, refs |-> c.refs]
  OBVIOUS
<1>4. p \in Procs /\ born \in Nat /\ born + 1 \in Nat /\ Parts \subseteq Kinds /\ "task" \in Kinds
  BY DEF Kept, IInv, Types, Parts, Shared, Kinds
<1>5. /\ c.op = "provision" /\ c.tenant \in Tenants /\ c.refs \in WideRefs /\ c.refs[k] = 0
      /\ c.at = CreateAt(k)
      /\ \A j \in Kinds : CreateAt(j) < c.at /\ Real(j) => c.refs[j] # 0
      /\ \A j \in Kinds : c.refs[j] # 0 =>
            CreateAt(j) < c.at /\ Real(j) /\ (j # "task" => Has(j, c.refs[j], c.tenant))
  BY <1>1, <1>4, CreatingIs
<1>6. /\ d.op = "provision" /\ d.phase = "work" /\ UNCHANGED mode /\ d.refs[k] = born + 1
      /\ \A j \in Kinds \ {k} : d.refs[j] = c.refs[j]
  BY <1>1, <1>2, <1>4, GotIs
<1>7. Brings(n) /\ n.kind = k /\ n.id = born + 1 /\ n.tenant = c.tenant /\ n.refs = c.refs
  BY <1>1, <1>3, <1>5, <1>6, MakeBrings
<1>8. \A r \in cloud' : r = n \/ r \in cloud
  BY <1>7 DEF Brings
<1>9. CASE k # "task"
  <2>1. SureCall(d)'
    BY <1>1, <1>4, <1>6, <1>7, <1>8, <1>9, PartInHand
  <2>. QED  BY <1>2, <1>7, <1>9, <2>1, SureGrows
<1>10. CASE k = "task"
  <2>1. SureProvision(c) /\ c.refs["task"] = 0
    BY <1>1, <1>4, <1>5, <1>10 DEF Sure, SureCall
  <2>2. \A j \in Parts : Real(j) /\ CreateAt(j) < c.at /\ j # "task"
    <3>1. mode \in {"alb", "public"}
      BY DEF Kept, IInv, Types
    <3>2. \A j \in Parts : Real(j)
      BY <3>1 DEF Real, AlbDeps, PublicDeps, Parts, Shared, Kinds, Wiring
    <3>3. \A j \in Parts : CreateAt(j) < CreateAt("task") /\ j # "task"
      BY DEF CreateAt, Parts, Shared
    <3>. QED  BY <1>5, <1>10, <3>2, <3>3
  <2>3. \A j \in Parts : c.refs[j] # 0 /\ Exists(j, c.refs[j])
    BY <1>4, <1>5, <2>2 DEF Has, Exists
  <2>4. \A j \in Parts : Unnamed(j, c.refs[j]) /\ \A r \in cloud : r.kind = "task" => r.refs[j] # c.refs[j]
    BY <2>1, <2>3, ResourceIs DEF SureProvision
  <2>5. \A t \in Tenants : store[t] # None =>
           Alike(c.refs, store[t].refs) /\ store[t].refs["taskDef"] # c.refs["taskDef"]
    BY <2>4 DEF Unnamed, Alike, Parts
  <2>6. \A r \in cloud : r.kind = "task" => r.refs["taskDef"] # c.refs["taskDef"]
    BY <2>4 DEF Parts
  <2>7. \A j \in Parts : d.refs[j] = c.refs[j]
    BY <1>4, <1>6, <1>10, <2>2
  <2>8. d.refs["task"] = n.id /\ \A r \in cloud : r.id # n.id
    BY <1>6, <1>7, <1>10, BringsNew
  <2>9. SureProvision(d)'
    <3>1. \A j, i : Unnamed(j, i)' <=> Unnamed(j, i)
      BY DEF Unnamed
    <3>2. \A j \in Parts : Unnamed(j, d.refs[j])'
      BY <2>4, <2>7, <3>1
    <3>3. \A j \in Parts : \A r \in cloud' :
             r.kind = "task" /\ r.refs[j] = d.refs[j] => r.id = d.refs["task"]
      BY <1>8, <2>4, <2>7, <2>8
    <3>4. \A r \in cloud' : r.kind = "task" /\ r.id = d.refs["task"] =>
             \A j \in Parts : r.refs[j] = d.refs[j]
      BY <1>7, <1>8, <2>7, <2>8
    <3>. QED  BY <1>6, <3>2, <3>3, <3>4 DEF SureProvision, PastTask
  <2>10. SureCall(d)'
    BY <1>6, <2>9 DEF SureCall
  <2>. QED  BY <1>2, <1>7, <2>3, <2>5, <2>6, <2>10, SureGrows
<1>. QED  BY <1>9, <1>10

\* A step of provisionAgent makes, finds or fakes.
LEMMA CreateSure ==
    ASSUME Kept, Sure, NEW p, Procs = {p}, mode # "local", Create(p)
    PROVE  Sure'
<1>1. PICK k : k = CreateStep(p)
  OBVIOUS
<1>2. /\ Creating(p) /\ k \in Kinds
      /\ UNCHANGED <<halted, kept, lost, store>>
      /\ \/ ~Real(k) /\ Set(p, Gets(p, k, 0, GotUndo(p, k))) /\ UNCHANGED <<cloud, born>>
         \/ /\ Real(k)
            /\ Set(p, Gets(p, k, born + 1, GotUndo(p, k)))
            /\ Make(k, call[p].tenant, call[p].refs)
         \/ /\ \E r \in Existing(k, call[p].tenant) : Set(p, Gets(p, k, r.id, GotUndo(p, k)))
            /\ UNCHANGED <<cloud, born>>
  BY <1>1 DEF Create, Gets, GotUndo, history
<1>3. ~Real(k) => k \in {"tg", "rule"}
  <2>1. mode \in {"alb", "public"}
    BY DEF Kept, IInv, Types
  <2>. QED  BY <1>2, <2>1 DEF Real, AlbDeps, PublicDeps, Kinds, Wiring
<1>4. \A r \in Existing(k, call[p].tenant) : k = "tg" /\ r.id \in Nat
  BY ResourceIs DEF Existing
<1>5. 0 \in Nat
  OBVIOUS
<1>. QED  BY <1>1, <1>2, <1>3, <1>4, <1>5, FoundSure, MadeSure

\* A group whose rules could not be set.
LEMMA SgRulesFailSure ==
    ASSUME Kept, Sure, NEW p, Procs = {p}, mode # "local", SgRulesFail(p)
    PROVE  Sure'
<1>1. PICK c : c = call[p]
  OBVIOUS
<1>2. PICK d : d = call'[p]
  OBVIOUS
<1>3. PICK x : x = [c EXCEPT !.phase = "undo"]
  OBVIOUS
<1>4. PICK n : n = [kind |-> "sg", id |-> born + 1, tenant |-> c.tenant, refs |-> c.refs]
  OBVIOUS
<1>5. /\ Creating(p) /\ "sg" = CreateStep(p) /\ p \in Procs /\ Set(p, x) /\ "sg" \in Kinds
      /\ Make("sg", c.tenant, c.refs) /\ lost' = lost \cup {born + 1} /\ UNCHANGED <<halted, kept, store>>
  BY <1>1, <1>3 DEF SgRulesFail, Kinds
<1>6. /\ Full(c) /\ c.op = "provision" /\ c.phase = "work" /\ c.tenant \in Tenants /\ c.refs \in WideRefs
  BY <1>1, <1>5, CreatingIs
<1>7. d = x /\ UNCHANGED mode
  BY <1>2, <1>5, SetIs
<1>8. d.op = c.op /\ d.refs = c.refs /\ d.old = c.old /\ d.undo = c.undo
  BY <1>3, <1>6, <1>7 DEF Full
<1>9. Brings(n) /\ n.kind = "sg"
  BY <1>4, <1>5, <1>6, <1>7, MakeBrings
<1>10. /\ \A r \in cloud' : r.kind = "task" => r \in cloud
       /\ \A r \in cloud' : IsUp(r)' => IsUp(r)
  BY <1>5, <1>9 DEF Brings, IsUp
<1>11. PastTask(d) => TaskDown(d)'
  <2>1. PastTask(d) => TaskDown(c)
    BY <1>1, <1>5, <1>8, NoTaskYet DEF PastTask
  <2>2. \A r \in cloud' : IsUp(r)' => r \in cloud
    BY <1>10 DEF IsUp
  <2>. QED  BY <1>8, <1>10, <2>1, <2>2 DEF TaskDown
<1>12. SureCall(c) /\ d.op = "provision"
  BY <1>1, <1>5, <1>6, <1>8 DEF Sure
<1>13. SureCall(d)'
  BY <1>5, <1>8, <1>10, <1>11, <1>12, SureStays
<1>. QED  BY <1>2, <1>9, <1>13, SureGrows

-----------------------------------------------------------------------------

\* The places of what is on the rollback stack.
LEMMA UndoPlaces ==
    ASSUME NEW k \in Entry
    PROVE  /\ k = "task" <=> UndoAt(k) = 5
           /\ k \in Parts => UndoAt(k) \in 1 .. 4
           /\ k \in Wiring => UndoAt(k) - Entries(k) = 5
           /\ k \in Parts \/ k = "task" \/ k \in Wiring
           /\ UndoAt(k) \in Nat
<1>1. k \in {"accessPoint", "secret", "sg", "taskDef", "task", "tg", "rule", "target"}
  BY DEF Entry, Kinds
<1>2. CASE k \in {"accessPoint", "secret", "sg", "taskDef", "task"}
  BY <1>2 DEF UndoAt, Parts, Shared, Wiring
<1>3. CASE k = "tg"
  <2>1. UndoAt(k) = 6 /\ Entries(k) = 1
    BY <1>3 DEF UndoAt, Entries
  <2>. QED  BY <1>3, <2>1 DEF Parts, Shared, Wiring
<1>4. CASE k = "target"
  <2>1. UndoAt(k) = 7 /\ Entries(k) = 2
    BY <1>4 DEF UndoAt, Entries
  <2>. QED  BY <1>4, <2>1 DEF Parts, Shared, Wiring
<1>5. CASE k = "rule"
  <2>1. UndoAt(k) = 8 /\ Entries(k) = 3
    BY <1>5 DEF UndoAt, Entries
  <2>. QED  BY <1>5, <2>1 DEF Parts, Shared, Wiring
<1>. QED  BY <1>1, <1>2, <1>3, <1>4, <1>5

\* The rollback undoes its last kind: the task is told to stop before anything
\* that it was made of goes.
LEMMA UndoSure ==
    ASSUME Kept, Sure, NEW p, Procs = {p}, mode # "local", Undo(p)
    PROVE  Sure'
<1>1. PICK c : c = call[p]
  OBVIOUS
<1>2. PICK d : d = call'[p]
  OBVIOUS
<1>3. PICK k : k = Top(p)
  OBVIOUS
<1>4. /\ c.op = "provision" /\ c.phase = "undo" /\ p \in Procs
      /\ Len(c.undo) \in Nat \ {0} /\ k \in Entry /\ UndoAt(k) = Len(c.undo)
  BY <1>1, <1>3, TopIs DEF Undo
<1>5. /\ d.op = "provision" /\ d.refs = c.refs /\ d.old = c.old /\ Len(d.undo) = Len(c.undo) - 1
      /\ UNCHANGED mode
  <2>1. PICK m : m = Len(c.undo) - 1
    OBVIOUS
  <2>2. m \in Nat /\ m <= Len(c.undo)
    BY <1>4, <2>1
  <2>3. Undoing(p) /\ Set(p, [c EXCEPT !.undo = SubSeq(@, 1, m)])
    BY <1>1, <2>1 DEF Undo
  <2>4. d.op = "provision" /\ d.refs = c.refs /\ d.old = c.old /\ Len(d.undo) = m /\ UNCHANGED mode
    BY <1>1, <1>2, <1>4, <2>2, <2>3, PopIs
  <2>. QED  BY <2>1, <2>4
<1>6. UNCHANGED <<kept, lost, store>>
  BY DEF Undo, history
<1>7. /\ SureCall(c) /\ SureProvision(c)
  BY <1>1, <1>4 DEF Sure, SureCall
<1>8. k = "task" <=> Len(c.undo) = 5
  BY <1>4, UndoPlaces
<1>9. PastTask(d) => TaskDown(c) \/ k = "task"
  <2>1. SUFFICES ASSUME PastTask(d), k # "task" PROVE TaskDown(c)
    OBVIOUS
  <2>2. Len(d.undo) <= 4
    BY <2>1 DEF PastTask
  <2>3. Len(c.undo) <= 4
    <3>1. PICK n : n = Len(c.undo)
      OBVIOUS
    <3>2. n \in Nat /\ n - 1 <= 4
      BY <1>4, <1>5, <2>2, <3>1
    <3>3. n # 5
      BY <1>8, <2>1, <3>1
    <3>4. n <= 4
      BY <3>2, <3>3
    <3>. QED  BY <3>1, <3>4
  <2>. QED  BY <1>4, <1>7, <2>3 DEF SureProvision, PastTask
<1>10. CASE ~Real(k) \/ k = "target"
  <2>1. UNCHANGED <<cloud, halted>>
    BY <1>1, <1>3, <1>10 DEF Undo, Removal
  <2>2. k # "task"
    <3>1. Real("task")
      BY DEF Real, AlbDeps, PublicDeps, Kinds, Wiring, Kept, IInv, Types
    <3>. QED  BY <1>10, <3>1
  <2>3. PastTask(d) => TaskDown(c)
    BY <1>9, <2>2
  <2>. QED  BY <1>1, <1>2, <1>4, <1>5, <1>6, <2>1, <2>3, PlaceSure
<1>11. CASE Real(k) /\ k # "target"
  <2>1. k \in Kinds /\ ~Refused(k, c.refs[k]) /\ Unmake(k, c.refs[k], c.tenant)
    BY <1>1, <1>3, <1>4, <1>11 DEF Undo, Accepts, Removal, Entry
  <2>2. /\ cloud' \subseteq cloud
        /\ \A r \in cloud : IsUp(r)' => IsUp(r)
        /\ \A q \in cloud : q \in cloud' \/ (q.kind = k /\ q.id = c.refs[k] /\ k # "task")
    BY <1>5, <1>6, <2>1, RemovalShrinks
  <2>3. k = "task" => TaskDown(c)'
    <3>1. SUFFICES ASSUME k = "task", NEW r \in cloud', IsUp(r)', r.id = c.refs["task"] PROVE FALSE
      BY DEF TaskDown
    <3>2. halted' = halted \cup {i \in {c.refs["task"]} : Exists("task", i)}
      BY <2>1, <3>1 DEF Unmake
    <3>3. r \in cloud /\ r.kind = "task"
      BY <2>2, <3>1 DEF IsUp
    <3>. QED  BY <3>1, <3>2, <3>3 DEF Exists, IsUp
  <2>4. PastTask(d) => TaskDown(d)'
    <3>1. TaskDown(c) => TaskDown(c)'
      BY <2>2 DEF TaskDown
    <3>2. TaskDown(c)' => TaskDown(d)'
      BY <1>5 DEF TaskDown
    <3>. QED  BY <1>9, <2>3, <3>1, <3>2
  <2>5. SureCall(d)'
    <3>1. /\ \A r \in cloud' : r.kind = "task" => r \in cloud
          /\ \A r \in cloud' : IsUp(r)' => IsUp(r)
      BY <2>2
    <3>. QED  BY <1>4, <1>5, <1>6, <1>7, <2>4, <3>1, SureStays
  <2>6. ASSUME NEW q \in cloud, q.kind \in Parts, q \notin cloud', NEW r \in cloud', IsUp(r)',
               r.refs[q.kind] = q.id
        PROVE  FALSE
    <3>1. q.kind = k /\ q.id = c.refs[k] /\ q.id # 0 /\ k # "task"
      BY <2>2, <2>6, ResourceIs
    <3>2. r \in cloud /\ r.kind = "task" /\ IsUp(r)
      BY <2>2, <2>6 DEF IsUp
    <3>3. r.id = c.refs["task"]
      BY <1>7, <2>6, <3>1, <3>2 DEF SureProvision
    <3>4. Len(c.undo) <= 4
      BY <1>4, <2>6, <3>1 DEF UndoAt, Parts, Shared
    <3>. QED  BY <1>4, <1>7, <3>2, <3>3, <3>4 DEF SureProvision, PastTask, TaskDown
  <2>. QED  BY <1>2, <1>5, <1>6, <2>2, <2>5, <2>6, SureShrinks
<1>. QED  BY <1>10, <1>11

\* It swallows an error, but not of a task that is there.
LEMMA UndoFailsSure ==
    ASSUME Kept, Sure, NEW p, Procs = {p}, mode # "local", UndoFails(p), "undoTask" \notin Faults
    PROVE  Sure'
<1>1. PICK c : c = call[p]
  OBVIOUS
<1>2. PICK d : d = call'[p]
  OBVIOUS
<1>3. PICK k : k = Top(p)
  OBVIOUS
<1>4. PICK m : m = Len(c.undo) - Entries(k)
  OBVIOUS
<1>5. /\ c.op = "provision" /\ c.phase = "undo" /\ p \in Procs
      /\ Len(c.undo) \in Nat \ {0} /\ k \in Entry /\ UndoAt(k) = Len(c.undo)
      /\ Entries(k) \in 1 .. Len(c.undo)
  BY <1>1, <1>3, TopIs DEF UndoFails
<1>6. m \in Nat /\ m <= Len(c.undo)
  BY <1>4, <1>5
<1>7. Undoing(p) /\ Set(p, [c EXCEPT !.undo = SubSeq(@, 1, m)])
  BY <1>1, <1>3, <1>4 DEF UndoFails
<1>8. d.op = "provision" /\ d.refs = c.refs /\ d.old = c.old /\ Len(d.undo) = m /\ UNCHANGED mode
  BY <1>1, <1>2, <1>5, <1>6, <1>7, PopIs
<1>9. UNCHANGED <<cloud, halted, store>>
  BY DEF UndoFails
<1>10. SureProvision(c)
  BY <1>1, <1>5 DEF Sure, SureCall
<1>11. k # "task" => m = 5 \/ Len(c.undo) <= 4
  <2>1. k \in Parts \/ k = "task" \/ k \in Wiring
    BY <1>5, UndoPlaces
  <2>2. k \in Parts => Len(c.undo) <= 4
    BY <1>5, UndoPlaces
  <2>3. k \in Wiring => m = 5
    BY <1>4, <1>5, UndoPlaces
  <2>. QED  BY <2>1, <2>2, <2>3
<1>12. k = "task" => TaskDown(c)
  <2>1. SUFFICES ASSUME k = "task" PROVE TaskDown(c)
    OBVIOUS
  <2>2. UndoFault(k) = "undoTask"
    BY <2>1 DEF UndoFault, Wiring
  <2>3. ~Accepts(k, c)
    BY <1>1, <1>3, <2>2 DEF UndoFails, Fault
  <2>4. ~Exists("task", c.refs["task"])
    BY <2>1, <2>3 DEF Accepts, Refused
  <2>. QED  BY <2>4 DEF Exists, TaskDown, IsUp
<1>13. PastTask(d) => TaskDown(c)
  BY <1>5, <1>6, <1>8, <1>10, <1>11, <1>12 DEF PastTask, SureProvision
<1>. QED  BY <1>1, <1>2, <1>5, <1>8, <1>9, <1>13, PlaceSure

-----------------------------------------------------------------------------

\* A teardown deletes what its record names: the task first, what it shares with
\* tasks of the same agent last.
LEMMA DeleteSure ==
    ASSUME Kept, Sure, NEW p, Procs = {p}, mode # "local", Delete(p)
    PROVE  Sure'
<1>1. PICK c : c = call[p]
  OBVIOUS
<1>2. PICK d : d = call'[p]
  OBVIOUS
<1>3. PICK k : k = TeardownStep(p)
  OBVIOUS
<1>4. PICK x : x = Next1(p)
  OBVIOUS
<1>5. /\ Full(c) /\ GoodRead(c) /\ c.op = "teardown" /\ c.phase = "work" /\ p \in Procs
      /\ c.at \in Nat \ {0} /\ c.at <= Len(TeardownSteps) /\ TeardownSteps[c.at] = k
      /\ c.tenant \in Tenants
  BY <1>1, <1>3, HeldIs DEF Delete, TearingDown, TeardownStep, Goes, Good
<1>6. /\ k \in Entry /\ c.at <= 8 /\ \A j \in Kinds : TeardownAt(j) = c.at <=> j = k
  BY <1>5, TeardownPlaces
<1>7. /\ Set(p, x) /\ UNCHANGED <<lost, store>> /\ kept \subseteq kept'
      /\ \/ (Skips(p) \/ k = "target") /\ UNCHANGED <<cloud, halted>>
         \/ ~Skips(p) /\ k # "target" /\ ~Refused(k, c.refs[k]) /\ Unmake(k, c.refs[k], c.tenant)
  BY <1>1, <1>3, <1>4 DEF Delete, Accepts, Removal
<1>8. d = x /\ UNCHANGED mode
  BY <1>2, <1>5, <1>7, SetIs
<1>9. d.op = c.op /\ d.refs = c.refs /\ d.old = c.old /\ d.at = c.at + 1
  BY <1>1, <1>4, <1>5, <1>8 DEF Full, Next1
<1>10. SureTeardown(c) /\ SureRecord(c.refs) /\ SureCall(c)
  BY <1>1, <1>5 DEF Sure, SureCall, SureRecords, GoodRead
<1>11. /\ c.at = 4 <=> k = "task"
       /\ c.at = 6 <=> k = "sg"
       /\ k = "taskDef" => c.at > 4
       /\ k \in {"secret", "accessPoint"} => c.at > 6
  <2>1. /\ TeardownAt("task") = 4 /\ TeardownAt("sg") = 6 /\ TeardownAt("taskDef") = 5
        /\ TeardownAt("secret") = 7 /\ TeardownAt("accessPoint") = 8
        /\ {"task", "sg", "taskDef", "secret", "accessPoint"} \subseteq Kinds
    BY DEF TeardownAt, Kinds
  <2>. QED  BY <1>6, <2>1
<1>12. k \in {"task", "sg"} => ~Skips(p) /\ k # "target"
  <2>1. k \in {"task", "sg"} => c.refs[k] # 0 /\ k \notin Wiring /\ k # "accessPoint" /\ k # "target"
    BY <1>10 DEF SureRecord, Parts, Shared, Wiring
  <2>. QED  BY <1>1, <1>3, <2>1 DEF Skips
<1>13. /\ cloud' \subseteq cloud
       /\ \A r \in cloud : IsUp(r)' => IsUp(r)
       /\ \A q \in cloud : q \in cloud' \/ (q.kind = k /\ q.id = c.refs[k] /\ ~Refused(k, c.refs[k]))
  <2>1. CASE k # "target" /\ ~Refused(k, c.refs[k]) /\ Unmake(k, c.refs[k], c.tenant)
    BY <1>7, <1>8, <2>1, RemovalShrinks
  <2>2. CASE UNCHANGED <<cloud, halted>>
    BY <2>2 DEF IsUp
  <2>. QED  BY <1>7, <2>1, <2>2
<1>14. /\ \A r \in cloud' : r.kind = "task" => r \in cloud
       /\ \A r \in cloud' : IsUp(r)' => IsUp(r)
  BY <1>13
<1>15. d.at > 4 => TaskDown(d)'
  <2>1. CASE c.at > 4
    BY <1>9, <1>10, <1>13, <2>1 DEF SureTeardown, TaskDown
  <2>2. CASE c.at = 4
    <3>1. halted' = halted \cup {i \in {c.refs["task"]} : Exists("task", i)}
      BY <1>7, <1>11, <1>12, <2>2 DEF Unmake
    <3>2. SUFFICES ASSUME NEW r \in cloud', IsUp(r)', r.id = c.refs["task"] PROVE FALSE
      BY <1>9 DEF TaskDown
    <3>3. r \in cloud /\ r.kind = "task"
      BY <1>13, <3>2 DEF IsUp
    <3>. QED  BY <3>1, <3>2, <3>3 DEF Exists, IsUp
  <2>. QED  BY <1>5, <1>9, <2>1, <2>2
<1>16. d.at > 6 => \A r \in cloud' : r.kind = "task" => r.refs["sg"] # c.refs["sg"]
  <2>1. CASE c.at > 6
    BY <1>10, <1>13, <2>1 DEF SureTeardown
  <2>2. CASE c.at = 6
    BY <1>7, <1>11, <1>12, <1>13, <2>2 DEF Refused
  <2>. QED  BY <1>5, <1>9, <2>1, <2>2
<1>17. SureCall(d)'
  <2>1. d.op = "teardown"
    BY <1>5, <1>9
  <2>. QED  BY <1>7, <1>9, <1>10, <1>14, <1>15, <1>16, <2>1, SureStays
<1>18. ASSUME NEW q \in cloud, q.kind \in Parts, q \notin cloud', NEW r \in cloud', IsUp(r)',
              r.refs[q.kind] = q.id
       PROVE  FALSE
  <2>1. q.kind = k /\ q.id = c.refs[k] /\ ~Refused(k, c.refs[k]) /\ q.id # 0
    BY <1>13, <1>18, ResourceIs
  <2>2. r \in cloud /\ r.kind = "task" /\ IsUp(r) /\ r.refs[k] = c.refs[k] /\ k \in Parts
    BY <1>13, <1>18, <2>1 DEF IsUp
  <2>3. Alike(r.refs, c.refs) /\ (r.refs["taskDef"] = c.refs["taskDef"] => r.id = c.refs["task"])
    BY <1>10, <2>2 DEF SureRecord
  <2>4. CASE k = "taskDef"
    BY <1>10, <1>11, <2>2, <2>3, <2>4 DEF SureTeardown, TaskDown
  <2>5. CASE k = "sg"
    BY <2>1, <2>2, <2>5 DEF Refused
  <2>6. CASE k \in {"secret", "accessPoint"}
    <3>1. r.refs["sg"] = c.refs["sg"]
      BY <2>1, <2>2, <2>3, <2>6 DEF Alike, Shared
    <3>. QED  BY <1>10, <1>11, <2>2, <2>6, <3>1 DEF SureTeardown
  <2>. QED  BY <2>2, <2>4, <2>5, <2>6 DEF Parts, Shared
<1>. QED  BY <1>2, <1>7, <1>8, <1>14, <1>17, <1>18, SureShrinks

-----------------------------------------------------------------------------

\* A task exits or is gone.
LEMMA TaskEndsSure ==
    ASSUME Kept, Sure, NEW p, Procs = {p}, mode # "local", TaskExits \/ TaskGone
    PROVE  Sure'
<1>1. PICK c : c = call[p]
  OBVIOUS
<1>2. PICK d : d = call'[p]
  OBVIOUS
<1>3. d = c /\ UNCHANGED <<mode, store>>
  BY <1>1, <1>2 DEF TaskExits, TaskGone, settings
<1>4. /\ cloud' \subseteq cloud
      /\ \A q \in cloud : q.kind # "task" => q \in cloud'
      /\ \A r \in cloud' : IsUp(r)' => IsUp(r)
  <2>1. CASE TaskExits
    BY <2>1 DEF TaskExits, IsUp
  <2>2. CASE TaskGone
    <3>1. PICK q \in cloud : /\ q.kind = "task" /\ cloud' = cloud \ {q}
                             /\ halted' = halted \ {q.id}
      BY <2>2 DEF TaskGone
    <3>2. \A r \in cloud' : r.id # q.id
      BY <3>1 DEF Kept, World, OneId
    <3>. QED  BY <3>1, <3>2 DEF IsUp
  <2>. QED  BY <2>1, <2>2
<1>5. /\ \A r \in cloud' : r.kind = "task" => r \in cloud
      /\ \A q \in cloud : q.kind \in Parts => q \in cloud'
  BY <1>4 DEF Parts, Shared
<1>6. SureCall(c)
  BY <1>1 DEF Sure
<1>7. TaskDown(c) => TaskDown(d)'
  BY <1>3, <1>4 DEF TaskDown
<1>8. d.op = "provision" /\ PastTask(d) => TaskDown(d)'
  BY <1>3, <1>6, <1>7 DEF SureCall, SureProvision
<1>9. d.op = "teardown" /\ d.at > 4 => TaskDown(d)'
  BY <1>3, <1>6, <1>7 DEF SureCall, SureTeardown
<1>10. d.op = "teardown" /\ d.at > 6 => \A r \in cloud' : r.kind = "task" => r.refs["sg"] # c.refs["sg"]
  BY <1>3, <1>5, <1>6 DEF SureCall, SureTeardown
<1>11. SureCall(d)'
  BY <1>3, <1>4, <1>5, <1>6, <1>8, <1>9, <1>10, SureStays
<1>. QED  BY <1>2, <1>3, <1>4, <1>5, <1>11, SureShrinks

-----------------------------------------------------------------------------

\* The new task definition is nobody's yet,
LEMMA NewTaskDefSure ==
    ASSUME Kept, Sure, NEW p, Procs = {p}, mode # "local", Updating(p), UpdateStep(p) = "newTaskDef",
           Make("taskDef", call[p].tenant, call[p].refs),
           Set(p, [Next1(p) EXCEPT !.refs["taskDef"] = born + 1]),
           UNCHANGED <<halted, kept, lost, store>>
    PROVE  Sure'
<1>1. PICK c : c = call[p]
  OBVIOUS
<1>2. PICK d : d = call'[p]
  OBVIOUS
<1>3. PICK b : b = Next1(p)
  OBVIOUS
<1>4. PICK x : x = [b EXCEPT !.refs["taskDef"] = born + 1]
  OBVIOUS
<1>5. PICK n : n = [kind |-> "taskDef", id |-> born + 1, tenant |-> c.tenant, refs |-> c.refs]
  OBVIOUS
<1>6. p \in Procs /\ born \in Nat /\ "taskDef" \in Kinds /\ "task" \in Kinds /\ Shared \subseteq Kinds
  BY DEF Kept, IInv, Types, Kinds, Shared
<1>7. /\ Full(c) /\ c.op = "update" /\ c.phase = "work" /\ c.at = 1 /\ c.tenant \in Tenants
      /\ c.refs \in WideRefs
  BY <1>1, <1>6, UpdatingIs
<1>8. /\ Full(b) /\ b.op = c.op /\ b.refs = c.refs /\ b.old = c.old /\ b.at = 2
  BY <1>1, <1>3, <1>7 DEF Full, Next1
<1>9. d = x /\ UNCHANGED mode
  BY <1>2, <1>3, <1>4, <1>6, SetIs
<1>10. d.op = c.op /\ d.old = c.old /\ d.at = 2 /\ d.refs = [c.refs EXCEPT !["taskDef"] = born + 1]
  BY <1>4, <1>8, <1>9 DEF Full
<1>11. d.refs["taskDef"] = born + 1 /\ \A j \in Kinds \ {"taskDef"} : d.refs[j] = c.refs[j]
  BY <1>6, <1>7, <1>10 DEF WideRefs
<1>12. Brings(n) /\ n.kind = "taskDef"
  BY <1>1, <1>5, <1>6, <1>7, <1>9, MakeBrings
<1>13. \A r \in cloud' : r.kind = "task" => r \in cloud
  BY <1>12 DEF Brings
<1>14. SureUpdate(c)
  BY <1>1, <1>6, <1>7 DEF Sure, SureCall
<1>15. d.refs["task"] # 0
  BY <1>6, <1>11, <1>14 DEF SureUpdate
<1>16. \A r \in cloud' : r.kind = "task" /\ r.refs["taskDef"] # 0 /\ r.refs["taskDef"] = d.old["taskDef"] =>
          r.id = d.old["task"]
  BY <1>10, <1>13, <1>14 DEF SureUpdate
<1>17. Unnamed("taskDef", d.refs["taskDef"])'
  <2>1. SUFFICES ASSUME NEW t \in Tenants, store[t] # None PROVE store[t].refs["taskDef"] # born + 1
    BY <1>11 DEF Unnamed
  <2>2. store[t].refs["taskDef"] <= born /\ store[t].refs["taskDef"] \in Nat
    BY <1>6, <2>1, RecordBorn DEF Kept, IInv, Types, WideRecord, WideRefs
  <2>. QED  BY <1>6, <2>2
<1>18. \A r \in cloud' : r.kind = "task" => r.refs["taskDef"] # d.refs["taskDef"]
  <2>1. SUFFICES ASSUME NEW r \in cloud PROVE r.refs["taskDef"] # born + 1
    BY <1>11, <1>13
  <2>2. r.refs["taskDef"] \in Nat /\ r.refs["taskDef"] <= born
    BY <1>6, ResourceIs
  <2>. QED  BY <1>6, <2>2
<1>19. \A t \in Tenants : store'[t] # None => Alike(d.refs, store'[t].refs)
  <2>1. \A j \in Shared : d.refs[j] = c.refs[j]
    BY <1>6, <1>11 DEF Shared
  <2>2. \A t \in Tenants : store[t] # None => Alike(c.refs, store[t].refs)
    BY <1>14 DEF SureUpdate
  <2>. QED  BY <2>1, <2>2 DEF Alike
<1>20. SureUpdate(d)'
  BY <1>10, <1>15, <1>16, <1>17, <1>18, <1>19 DEF SureUpdate
<1>21. SureCall(d)'
  BY <1>7, <1>10, <1>20 DEF SureCall
<1>. QED  BY <1>2, <1>12, <1>21, SureGrows

\* and the new task is the only one that runs on it.
LEMMA RunNewSure ==
    ASSUME Kept, Sure, NEW p, Procs = {p}, mode # "local", Updating(p), UpdateStep(p) = "runNew",
           Whole(call[p]), Make("task", call[p].tenant, [call[p].refs EXCEPT !["task"] = 0]),
           Set(p, [Next1(p) EXCEPT !.refs["task"] = born + 1]),
           UNCHANGED <<halted, kept, lost, store>>
    PROVE  Sure'
<1>1. PICK c : c = call[p]
  OBVIOUS
<1>2. PICK d : d = call'[p]
  OBVIOUS
<1>3. PICK b : b = Next1(p)
  OBVIOUS
<1>4. PICK x : x = [b EXCEPT !.refs["task"] = born + 1]
  OBVIOUS
<1>0. PICK refs : refs = [c.refs EXCEPT !["task"] = 0]
  OBVIOUS
<1>5. PICK n : n = [kind |-> "task", id |-> born + 1, tenant |-> c.tenant, refs |-> refs]
  OBVIOUS
<1>6. p \in Procs /\ born \in Nat /\ "task" \in Kinds /\ Parts \subseteq Kinds \ {"task"}
  BY DEF Kept, IInv, Types, Kinds, Parts, Shared
<1>7. /\ Full(c) /\ Replaces(c) /\ c.op = "update" /\ c.phase = "work" /\ c.at = 3
      /\ c.tenant \in Tenants /\ c.refs \in WideRefs
  BY <1>1, <1>6, UpdatingIs
<1>8. /\ Full(b) /\ b.op = c.op /\ b.refs = c.refs /\ b.old = c.old /\ b.at = 4
  BY <1>1, <1>3, <1>7 DEF Full, Next1
<1>9. d = x /\ UNCHANGED mode
  BY <1>2, <1>3, <1>4, <1>6, SetIs
<1>10. d.op = c.op /\ d.old = c.old /\ d.at = 4 /\ d.refs = [c.refs EXCEPT !["task"] = born + 1]
  BY <1>4, <1>8, <1>9 DEF Full
<1>11. /\ d.refs["task"] = born + 1 /\ born + 1 # 0 /\ refs \in WideRefs
       /\ \A j \in Parts : d.refs[j] = c.refs[j] /\ refs[j] = c.refs[j]
  BY <1>0, <1>6, <1>7, <1>10 DEF WideRefs
<1>12. Brings(n) /\ n.kind = "task" /\ n.id = born + 1 /\ n.refs = refs
  BY <1>0, <1>1, <1>5, <1>6, <1>7, <1>9, <1>11, MakeBrings
<1>13. \A r \in cloud' : r = n \/ r \in cloud
  BY <1>12 DEF Brings
<1>14. SureUpdate(c)
  BY <1>1, <1>6, <1>7 DEF Sure, SureCall
<1>15. \A j \in Parts : Exists(j, c.refs[j])
  <2>1. Exists("taskDef", c.refs["taskDef"])
    BY <1>7 DEF Replaces, Has, Exists
  <2>. QED  BY <1>1, <2>1 DEF Whole, Parts, Shared
<1>16. /\ Unnamed("taskDef", c.refs["taskDef"])
       /\ \A r \in cloud : r.kind = "task" => r.refs["taskDef"] # c.refs["taskDef"]
       /\ c.refs["taskDef"] # c.old["taskDef"]
  BY <1>7, <1>14 DEF SureUpdate, Replaces
<1>17. \A t \in Tenants : store[t] # None =>
          Alike(c.refs, store[t].refs) /\ store[t].refs["taskDef"] # c.refs["taskDef"]
  BY <1>14, <1>16 DEF SureUpdate, Unnamed
<1>18. \A t \in Tenants : store[t] # None =>
          Alike(n.refs, store[t].refs) /\ Alike(d.refs, store[t].refs)
  <2>1. \A j \in Shared : n.refs[j] = c.refs[j] /\ d.refs[j] = c.refs[j]
    BY <1>11, <1>12 DEF Parts
  <2>. QED  BY <1>17, <2>1 DEF Alike
<1>19. "taskDef" \in Parts
  BY DEF Parts
<1>20. SureUpdate(d)'
  <2>1. \A r \in cloud' : r.kind = "task" /\ r.refs["taskDef"] # 0 /\ r.refs["taskDef"] = d.old["taskDef"] =>
           r.id = d.old["task"]
    BY <1>10, <1>11, <1>12, <1>13, <1>14, <1>16, <1>19 DEF SureUpdate
  <2>2. Unnamed("taskDef", d.refs["taskDef"])'
    BY <1>11, <1>16, <1>19 DEF Unnamed
  <2>3. \A r \in cloud' : r.kind = "task" /\ r.refs["taskDef"] = d.refs["taskDef"] => r.id = d.refs["task"]
    BY <1>11, <1>12, <1>13, <1>16, <1>19
  <2>4. \A t \in Tenants : store'[t] # None => Alike(d.refs, store'[t].refs)
    BY <1>18
  <2>. QED  BY <1>10, <1>11, <2>1, <2>2, <2>3, <2>4 DEF SureUpdate
<1>21. SureCall(d)'
  BY <1>7, <1>10, <1>20 DEF SureCall
<1>22. /\ \A j \in Parts : n.refs[j] # 0 => Exists(j, n.refs[j])
       /\ \A r \in cloud : r.kind = "task" => r.refs["taskDef"] # n.refs["taskDef"]
       /\ \A t \in Tenants : store[t] # None =>
             Alike(n.refs, store[t].refs) /\ store[t].refs["taskDef"] # n.refs["taskDef"]
  BY <1>11, <1>12, <1>15, <1>16, <1>17, <1>18, <1>19
<1>. QED  BY <1>2, <1>12, <1>21, <1>22, SureGrows

\* An update goes on: at most the old task stops, or the old task definition
\* goes when the old task is down.
LEMMA SwapsSure ==
    ASSUME Kept, Sure, NEW p, Procs = {p}, mode # "local", NEW c, c = call[p], Updating(p),
           NEW x, Set(p, x), x.op = c.op, x.old = c.old, x.refs = c.refs, x.at = c.at + 1, c.at # 1,
           UNCHANGED store, kept \subseteq kept', lost \subseteq lost',
           \/ UNCHANGED <<cloud, halted>>
           \/ Unmake("task", c.old["task"], c.tenant)
           \/ c.at = 5 /\ Unmake("taskDef", c.old["taskDef"], c.tenant)
    PROVE  Sure'
<1>1. PICK d : d = call'[p]
  OBVIOUS
<1>2. p \in Procs
  OBVIOUS
<1>3. /\ Replaces(c) /\ c.op = "update" /\ c.at \in 1 .. 5
  BY <1>2, UpdatingIs
<1>4. d = x /\ UNCHANGED mode
  BY <1>1, <1>2, SetIs
<1>5. SureCall(c) /\ SureUpdate(c)
  BY <1>2, <1>3 DEF Sure, SureCall
<1>6. /\ cloud' \subseteq cloud
      /\ \A r \in cloud : IsUp(r)' => IsUp(r)
      /\ \A q \in cloud : q \in cloud' \/ q.kind = "task"
                            \/ (c.at = 5 /\ q.kind = "taskDef" /\ q.id = c.old["taskDef"])
  <2>1. CASE UNCHANGED <<cloud, halted>>
    BY <2>1 DEF IsUp
  <2>2. CASE Unmake("task", c.old["task"], c.tenant)
    BY <1>4, <2>2, RemovalShrinks
  <2>3. CASE c.at = 5 /\ Unmake("taskDef", c.old["taskDef"], c.tenant)
    BY <1>4, <2>3, RemovalShrinks
  <2>. QED  BY <2>1, <2>2, <2>3
<1>7. /\ \A r \in cloud' : r.kind = "task" => r \in cloud
      /\ \A r \in cloud' : IsUp(r)' => IsUp(r)
  BY <1>6
<1>8. d.op = "update" /\ (d.at >= 2 => c.at >= 2) /\ (c.at >= 4 => d.at >= 4)
  BY <1>3, <1>4
<1>9. SureCall(d)'
  BY <1>4, <1>5, <1>7, <1>8, SureStays
<1>10. ASSUME NEW q \in cloud, q.kind \in Parts, q \notin cloud', NEW r \in cloud', IsUp(r)',
              r.refs[q.kind] = q.id
       PROVE  FALSE
  <2>1. c.at = 5 /\ q.kind = "taskDef" /\ q.id = c.old["taskDef"] /\ q.id # 0
    BY <1>6, <1>10, ResourceIs DEF Parts, Shared
  <2>2. r \in cloud /\ r.kind = "task" /\ r.id \notin halted
    BY <1>6, <1>10 DEF IsUp
  <2>3. r.id = c.old["task"]
    BY <1>5, <1>10, <2>1, <2>2 DEF SureUpdate
  <2>. QED  BY <1>3, <2>1, <2>2, <2>3 DEF Replaces
<1>. QED  BY <1>1, <1>4, <1>7, <1>9, <1>10, SureShrinks

\* A step of an update, or one that fails.
LEMMA SwapSure ==
    ASSUME Kept, Sure, NEW p, Procs = {p}, mode # "local", Swap(p) \/ SwapFails(p)
    PROVE  Sure'
<1>1. PICK c : c = call[p]
  OBVIOUS
<1>2. Updating(p) /\ UNCHANGED store /\ p \in Procs
  BY DEF Swap, SwapFails
<1>3. /\ Full(c) /\ c.op = "update" /\ c.at \in 1 .. 5
      /\ UpdateStep(p) = "stopOld" => c.at = 2
      /\ UpdateStep(p) = "waitNew" => c.at = 4
      /\ UpdateStep(p) = "dropOld" => c.at = 5
  BY <1>1, <1>2, UpdatingIs
<1>4. PICK x : x = Next1(p)
  OBVIOUS
<1>5. PICK y : y = [c EXCEPT !.at = @ + 1, !.phase = "load"]
  OBVIOUS
<1>6. /\ x.op = c.op /\ x.old = c.old /\ x.refs = c.refs /\ x.at = c.at + 1
      /\ y.op = c.op /\ y.old = c.old /\ y.refs = c.refs /\ y.at = c.at + 1
  BY <1>1, <1>3, <1>4, <1>5 DEF Full, Next1
<1>7. [Next1(p) EXCEPT !.phase = "load"] = y
  BY <1>1, <1>5 DEF Next1
<1>8. CASE Swap(p)
  <2>1. UNCHANGED <<kept, lost>> /\ kept \subseteq kept' /\ lost \subseteq lost'
    BY <1>8 DEF Swap, history
  <2>2. CASE UpdateStep(p) = "newTaskDef"
    BY <1>2, <1>8, <2>1, <2>2, NewTaskDefSure DEF Swap
  <2>3. CASE UpdateStep(p) = "runNew"
    BY <1>2, <1>8, <2>1, <2>3, RunNewSure DEF Swap
  <2>4. CASE UpdateStep(p) = "stopOld"
    <3>1. Set(p, x) /\ Unmake("task", c.old["task"], c.tenant)
      BY <1>1, <1>4, <1>8, <2>4 DEF Swap
    <3>2. c.at # 1
      BY <1>3, <2>4
    <3>. QED  BY <1>1, <1>2, <1>6, <2>1, <3>1, <3>2, SwapsSure
  <2>5. CASE UpdateStep(p) = "waitNew"
    <3>1. Set(p, x) /\ UNCHANGED <<cloud, halted>>
      BY <1>4, <1>8, <2>5 DEF Swap
    <3>2. c.at # 1
      BY <1>3, <2>5
    <3>. QED  BY <1>1, <1>2, <1>6, <2>1, <3>1, <3>2, SwapsSure
  <2>6. CASE UpdateStep(p) = "dropOld"
    <3>1. Set(p, y) /\ Unmake("taskDef", c.old["taskDef"], c.tenant)
      BY <1>1, <1>5, <1>8, <2>6 DEF Swap
    <3>2. c.at = 5 /\ c.at # 1
      BY <1>3, <2>6
    <3>. QED  BY <1>1, <1>2, <1>6, <2>1, <3>1, <3>2, SwapsSure
  <2>. QED  BY <1>8, <2>2, <2>3, <2>4, <2>5, <2>6 DEF Swap
<1>9. CASE SwapFails(p)
  <2>1. UNCHANGED <<cloud, halted, store>>
    BY <1>9 DEF SwapFails
  <2>2. CASE GiveUp(p)
    BY <2>1, <2>2, QuitSure DEF GiveUp
  <2>3. CASE ~GiveUp(p)
    <3>1. /\ UpdateStep(p) = "dropOld" /\ Set(p, y)
          /\ kept \subseteq kept' /\ lost \subseteq lost'
      BY <1>7, <1>9, <2>3 DEF SwapFails
    <3>2. c.at # 1
      BY <1>3, <3>1
    <3>. QED  BY <1>1, <1>2, <1>6, <2>1, <3>1, <3>2, SwapsSure
  <2>. QED  BY <2>2, <2>3
<1>. QED  BY <1>8, <1>9

-----------------------------------------------------------------------------

\* What a provision stores is what its task was made of.
LEMMA SaveProvisionSure ==
    ASSUME Kept, Sure, NEW p \in Procs, mode # "local", NEW c, c = call[p],
           c.op = "provision", c.phase = "save", NEW w, w = ToWrite(c)
    PROVE  SureRecord(w.refs)
<1>1. GoodProvision(c) /\ c.at = 12 /\ SureProvision(c)
  BY HeldIs DEF Good, GoodProvision, StackOK, Sure, SureCall
<1>2. w.refs = c.refs
  BY WritesAll
<1>3. \A k \in Parts \cup {"task"} : k \in Kinds /\ Real(k) /\ CreateAt(k) < 12
  <2>1. mode \in {"alb", "public"}
    BY DEF Kept, IInv, Types
  <2>2. \A k \in Parts \cup {"task"} : k \in Kinds /\ Real(k)
    BY <2>1 DEF Real, AlbDeps, PublicDeps, Parts, Shared, Kinds, Wiring
  <2>3. \A k \in Parts \cup {"task"} : CreateAt(k) < 12
    BY DEF CreateAt, Parts, Shared
  <2>. QED  BY <2>2, <2>3
<1>4. \A k \in Parts \cup {"task"} : c.refs[k] # 0
  <2>1. \A k \in Parts \cup {"task"} : c.at > CreateAt(k)
    BY <1>1, <1>3 DEF CreateAt, Parts, Shared
  <2>. QED  BY <1>1, <1>3, <2>1 DEF GoodProvision, HasMade
<1>5. ASSUME NEW r \in cloud, r.kind = "task", NEW k \in Parts, r.refs[k] = c.refs[k]
      PROVE  r.id = c.refs["task"] /\ \A j \in Parts : r.refs[j] = c.refs[j]
  BY <1>1, <1>4, <1>5 DEF SureProvision
<1>6. \A r \in cloud : r.kind = "task" =>
         Alike(r.refs, c.refs) /\ (r.refs["taskDef"] = c.refs["taskDef"] => r.id = c.refs["task"])
  BY <1>5 DEF Alike, Parts
<1>. QED  BY <1>2, <1>4, <1>6 DEF SureRecord

\* What an update stores is the record with the task and the task definition
\* that it runs on.
LEMMA SaveUpdateSure ==
    ASSUME Kept, Sure, NEW p \in Procs, mode # "local", NEW c, c = call[p],
           c.op = "update", c.phase = "save", store[c.tenant] # None, NEW w, w = ToWrite(c)
    PROVE  SureRecord(w.refs)
<1>1. GoodUpdate(c) /\ Replaces(c) /\ c.at = 6 /\ c.seen = store /\ c.tenant \in Tenants
  BY HeldIs DEF Good, GoodUpdate
<1>2. SureUpdate(c)
  BY DEF Sure, SureCall
<1>3. PICK had : had = store[c.tenant].refs
  OBVIOUS
<1>4. had \in Refs /\ SureRecord(had)
  BY <1>1, <1>3 DEF Kept, TypeOK, AgentRecord, Sure, SureRecords
<1>5. w.refs = [had EXCEPT !["task"] = c.refs["task"], !["taskDef"] = c.refs["taskDef"]]
  BY <1>1, <1>3 DEF ToWrite
<1>6. /\ w.refs["task"] = c.refs["task"] /\ w.refs["taskDef"] = c.refs["taskDef"]
      /\ \A k \in Shared : w.refs[k] = had[k]
  BY <1>4, <1>5 DEF Refs, Kinds, Shared
<1>7. c.refs["taskDef"] # 0
  <2>1. PICK q \in cloud : q.id = c.refs["taskDef"]
    BY <1>1 DEF Replaces, Has
  <2>. QED  BY <2>1, ResourceIs
<1>8. \A k \in Parts \cup {"task"} : w.refs[k] # 0
  BY <1>2, <1>4, <1>6, <1>7 DEF SureUpdate, SureRecord, Parts
<1>9. \A r \in cloud : r.kind = "task" => Alike(r.refs, w.refs)
  BY <1>4, <1>6 DEF SureRecord, Alike
<1>10. \A r \in cloud : r.kind = "task" /\ r.refs["taskDef"] = w.refs["taskDef"] => r.id = w.refs["task"]
  BY <1>1, <1>2, <1>6 DEF SureUpdate
<1>. QED  BY <1>8, <1>9, <1>10 DEF SureRecord

LEMMA SaveSure ==
    ASSUME Kept, Sure, NEW p, Procs = {p}, mode # "local", Save(p)
    PROVE  Sure'
<1>0. p \in Procs
  OBVIOUS
<1>1. PICK c : c = call[p]
  OBVIOUS
<1>2. PICK w : w = ToWrite(c)
  OBVIOUS
<1>3. /\ c.op # "idle" /\ c.phase = "save" /\ UNCHANGED <<cloud, halted>>
      /\ Writes(c) => /\ \/ store' = [c.seen EXCEPT ![c.tenant] = w]
                         \/ store' = [store EXCEPT ![c.tenant] = w]
                      /\ Quit(p)
      /\ ~Writes(c) => GiveUp(p) /\ UNCHANGED store
  BY <1>1, <1>2 DEF Save, FileWrite, RowWrite
<1>4. c.seen = store /\ c.tenant \in Tenants /\ Good(c)
  BY <1>0, <1>1, <1>3, HeldIs DEF Good
<1>5. CASE ~Writes(c)
  BY <1>3, <1>5, QuitSure DEF GiveUp
<1>6. CASE Writes(c)
  <2>1. store' = [store EXCEPT ![c.tenant] = w] /\ Quit(p)
    BY <1>3, <1>4, <1>6
  <2>2. PICK d : d = call'[p]
    OBVIOUS
  <2>3. d.op = "idle" /\ UNCHANGED mode
    BY <1>0, <2>1, <2>2, QuitIs
  <2>4. w # None => SureRecord(w.refs)
    <3>1. CASE c.op = "provision"
      BY <1>0, <1>1, <1>2, <1>3, <3>1, SaveProvisionSure
    <3>2. CASE c.op = "update"
      <4>1. store[c.tenant] # None
        BY <1>4, <1>6, <3>2 DEF Writes
      <4>. QED  BY <1>0, <1>1, <1>2, <1>3, <3>2, <4>1, SaveUpdateSure
    <3>3. CASE c.op = "teardown"
      BY <1>2, <3>3 DEF ToWrite
    <3>4. c.op # "control"
      BY <1>4 DEF Good, GoodRead
    <3>. QED  BY <1>0, <1>1, <1>3, <3>1, <3>2, <3>3, <3>4, HeldIs
  <2>5. \A t \in Tenants : store'[t] = store[t] \/ store'[t] = w
    BY <1>4, <2>1 DEF Kept, TypeOK
  <2>6. \A t \in Tenants : store'[t] # None => SureRecord(store'[t].refs)
    BY <2>4, <2>5 DEF Sure, SureRecords
  <2>7. SureRecords'
    BY <1>3, <2>6 DEF SureRecords, SureRecord
  <2>8. Rooted' /\ OwnDefs'
    BY <1>3 DEF Sure, Rooted, OwnDefs, IsUp, Exists
  <2>9. SureCall(d)'
    BY <2>3 DEF SureCall
  <2>. QED  BY <2>2, <2>7, <2>8, <2>9 DEF Sure
<1>. QED  BY <1>5, <1>6

-----------------------------------------------------------------------------
(* All of it together. *)

\* A call that is cut short or has undone its stack.
LEMMA EndedSure ==
    ASSUME Kept, Sure, NEW p, Procs = {p}, mode # "local",
           Kill(p) \/ SaveFails(p) \/ DeleteFails(p) \/ Undone(p)
    PROVE  Sure'
<1>1. Quit(p) /\ UNCHANGED <<cloud, halted, store>>
  BY DEF Kill, SaveFails, DeleteFails, Undone, GiveUp, world
<1>. QED  BY <1>1, QuitSure

LEMMA InitSure ==
    ASSUME Init
    PROVE  Sure
<1>1. cloud = {} /\ \A t \in Tenants : store[t] = None
  BY DEF Init
<1>2. \A p \in Procs : call[p].op = "idle"
  <2>1. PICK t \in Tenants : t = CHOOSE u \in Tenants : TRUE
    BY ProvisionerAssumption
  <2>. QED  BY <2>1, NoCallFields DEF Init
<1>. QED  BY <1>1, <1>2 DEF Sure, Rooted, OwnDefs, SureRecords, SureCall

\* Every step is sure, unless a StopTask of a rollback fails.
LEMMA StepSure ==
    ASSUME Kept, Sure, OneByOne, "undoTask" \notin Faults, [Next]_vars
    PROVE  Sure'
<1>0. UNCHANGED mode
  <2>1. Next => UNCHANGED settings
    BY CallsStayTyped DEF CallsTyped, Kept, IInv
  <2>. QED  BY <2>1 DEF vars, settings
<1>1. PICK p : Procs = {p}
  BY DEF OneByOne, OneAtATime
<1>2. CASE mode = "local"
  BY <1>0, <1>2 DEF Sure
<1>3. CASE mode # "local" /\ UNCHANGED vars
  <2>1. UNCHANGED <<mode, cloud, halted, store, call>>
    BY <1>3 DEF vars, settings, world
  <2>2. PICK d : d = call'[p]
    OBVIOUS
  <2>3. \A r : IsUp(r)' <=> IsUp(r)
    BY <2>1 DEF IsUp
  <2>4. \A c : SureCall(c) => SureCall(c)'
    BY <2>1, <2>3 DEF SureCall, SureProvision, SureTeardown, SureUpdate, TaskDown, Unnamed
  <2>5. SureCall(d)'
    BY <1>1, <1>3, <2>1, <2>2, <2>4 DEF Sure
  <2>. QED  BY <1>1, <1>3, <2>1, <2>2, <2>5, SureQuiet
<1>4. CASE mode # "local" /\ Next
  <2>1. CASE TaskExits \/ TaskGone
    BY <1>1, <1>4, <2>1, TaskEndsSure
  <2>2. CASE BeginCall(p)
    BY <1>1, <1>4, <2>2, BeginCallSure
  <2>3. CASE Kill(p) \/ SaveFails(p) \/ DeleteFails(p) \/ Undone(p)
    BY <1>1, <1>4, <2>3, EndedSure
  <2>4. CASE RegisterIp(p) \/ Waited(p, "healthy") \/ Waited(p, "ip") \/ Waited(p, "targetHealthy")
    BY <1>1, <1>4, <2>4, WaitedSure DEF Polls
  <2>5. CASE Create(p) \/ SgRulesFail(p) \/ Throws(p)
    BY <1>1, <1>4, <2>5, CreateSure, SgRulesFailSure, ThrowsSure
  <2>6. CASE Undo(p) \/ UndoFails(p)
    BY <1>1, <1>4, <2>6, UndoSure, UndoFailsSure
  <2>7. CASE Load(p) \/ Provisioned(p) \/ TornDown(p)
    BY <1>1, <1>4, <2>7, TurnSure
  <2>8. CASE Delete(p) \/ Save(p)
    BY <1>1, <1>4, <2>8, DeleteSure, SaveSure
  <2>9. CASE Swap(p) \/ SwapFails(p)
    BY <1>1, <1>4, <2>9, SwapSure
  <2>10. ~DockerRunFails(p) /\ \A v : ~DockerControls(p, v)
    <3>1. call[p].op = "control" => mode = "local"
      BY <1>1, HeldIs DEF Good, GoodRead
    <3>. QED  BY <1>4, <3>1 DEF DockerRunFails, DockerControls, Goes
  <2>. QED  BY <1>1, <1>4, <2>1, <2>2, <2>3, <2>4, <2>5, <2>6, <2>7, <2>8, <2>9, <2>10
            DEF Next, CallStep, ProvisionStep, WaitForHealthy, ResolveTaskIp, WaitTargetHealthy
<1>. QED  BY <1>2, <1>3, <1>4

\* What runs is rooted, and a rule has its group anyway.
LEMMA SurePullsNothing ==
    ASSUME Kept, Sure
    PROVE  NothingPulledAway
<1>1. SUFFICES ASSUME NEW r \in cloud, r.kind \in {"task", "rule"}, r.id \notin halted,
                      NEW k \in Kinds, r.refs[k] # 0, r.kind = "task" \/ k = "tg"
               PROVE  Exists(k, r.refs[k])
  BY DEF NothingPulledAway
<1>2. CASE r.kind = "rule"
  BY <1>1, <1>2 DEF Kept, World, RulesWired, Has, Exists
<1>3. CASE r.kind = "task"
  <2>1. mode # "local" /\ k \notin {"task", "tg", "rule"}
    BY <1>1, <1>3 DEF Kept, World, KindsOfMode
  <2>2. k \in Parts /\ IsUp(r)
    BY <1>1, <1>3, <2>1 DEF Kinds, Parts, Shared, IsUp
  <2>. QED  BY <1>1, <2>1, <2>2 DEF Sure, Rooted
<1>. QED  BY <1>1, <1>2, <1>3

\* Nothing is pulled away, in a teardown, an update or a rollback with OneByOne,
\* whatever else fails or is killed, but for a StopTask that a rollback swallows:
\* a task that has not been told to stop has its group, its secret, its data and
\* its task definition, and a rule its target group.
THEOREM NothingIsPulledAway ==
    OneByOne /\ "undoTask" \notin Faults => (Spec => []NothingPulledAway)
<1>1. OneByOne /\ "undoTask" \notin Faults /\ Kept /\ Sure /\ [Next]_vars => Kept' /\ Sure'
  BY StepKept, StepSure
<1>2. OneByOne /\ "undoTask" \notin Faults => (OneByOne /\ "undoTask" \notin Faults)'
  BY DEF OneByOne, OneAtATime, OwnNames, OwnPriorities
<1>. QED  BY <1>1, <1>2, InitKept, InitSure, SurePullsNothing, PTL DEF Spec

-----------------------------------------------------------------------------
(* A host leads home. *)

\* What the addresses behind the balancer that one task has had lead to.
Leads(i, g) == \A x \in targets : holder[x[2]] = i => x[1] = g
Unled(i)    == \A x \in targets : holder[x[2]] # i

\* A target is the address of a task that runs, in a group of its tenant.
TargetsLive ==
    \A x \in targets :
        x[2] \in Addresses /\ \E q \in cloud : IsUp(q) /\ q.id = holder[x[2]] /\ Has("tg", x[1], q.tenant)

\* A record names the group that its task is registered in.
RecordsLead ==
    \A t \in Tenants : store[t] # None => Leads(store[t].refs["task"], store[t].refs["tg"])

\* The address has been registered, and its rollback has not come past the group.
Registered(c) == IF c.phase = "undo" THEN Len(c.undo) >= 6 ELSE c.at >= 11

\* A provision that goes on: its task runs, and has the address it resolved.
HasTask(c)       == \E r \in cloud : IsUp(r) /\ r.id = c.refs["task"]
HasAddress(p, c) == ip[p] \in Addresses /\ holder[ip[p]] = c.refs["task"]

Onward(p, c) ==
    c.phase # "undo" => (c.at > 5 => HasTask(c)) /\ (c.at > 7 => HasAddress(p, c))

\* A rollback of the wiring finds what it is to remove.
Backward(c) ==
    c.phase = "undo" /\ Len(c.undo) >= 6 =>
        /\ c.refs["rule"] # 0 /\ Exists("tg", c.refs["tg"])
        /\ Exists("rule", c.refs["rule"]) <=> Len(c.undo) = 8

OnlyRule(c) ==
    c.refs["rule"] # 0 => \A r \in cloud : r.kind = "rule" /\ r.tenant = c.tenant => r.id = c.refs["rule"]

LeadProvision(p, c) ==
    /\ Leads(c.refs["task"], c.refs["tg"])
    /\ ~Registered(c) => Unled(c.refs["task"])
    /\ c.refs["task"] # 0 => Unnamed("task", c.refs["task"])
    /\ OnlyRule(c) /\ Onward(p, c) /\ Backward(c)

\* A teardown that is past the group has no address left.
LeadCall(p, c) ==
    /\ c.op = "provision" => LeadProvision(p, c)
    /\ c.op = "teardown" /\ c.at > 3 => Unled(c.refs["task"])

Led ==
    mode = "alb" =>
        /\ TargetsLive /\ RecordsLead
        /\ \A i \in halted : i <= born
        /\ \A p \in Procs : LeadCall(p, call[p])

-----------------------------------------------------------------------------

\* The addresses that stay registered are those of tasks and groups that stay.
LEMMA LedStays ==
    ASSUME Kept, Led, mode = "alb", NEW p, Procs = {p}, NEW d, d = call'[p],
           UNCHANGED <<mode, store>>, targets' \subseteq targets,
           \A x \in targets' : holder'[x[2]] = holder[x[2]],
           \A x \in targets', q \in cloud : IsUp(q) /\ q.id = holder[x[2]] => q \in cloud' /\ IsUp(q)',
           \A x \in targets', q \in cloud : q.kind = "tg" /\ q.id = x[1] => q \in cloud',
           \A i \in halted' : i <= born',
           LeadCall(p, d)'
    PROVE  Led'
<1>1. TargetsLive /\ RecordsLead
  BY DEF Led
<1>2. TargetsLive'
  <2>1. SUFFICES ASSUME NEW x \in targets'
                 PROVE  /\ x[2] \in Addresses
                        /\ \E q \in cloud' : IsUp(q)' /\ q.id = holder'[x[2]] /\ Has("tg", x[1], q.tenant)'
    BY DEF TargetsLive
  <2>2. x \in targets /\ holder'[x[2]] = holder[x[2]]
    BY <2>1
  <2>3. PICK q \in cloud : IsUp(q) /\ q.id = holder[x[2]] /\ Has("tg", x[1], q.tenant)
    BY <1>1, <2>2 DEF TargetsLive
  <2>4. PICK g \in cloud : g.kind = "tg" /\ g.id = x[1] /\ g.tenant = q.tenant
    BY <2>3 DEF Has
  <2>5. q \in cloud' /\ IsUp(q)' /\ g \in cloud'
    BY <2>1, <2>3, <2>4
  <2>. QED  BY <1>1, <2>2, <2>3, <2>4, <2>5 DEF TargetsLive, Has
<1>3. RecordsLead'
  BY <1>1 DEF RecordsLead, Leads
<1>. QED  BY <1>2, <1>3 DEF Led

\* Nothing happens but to the call.
LEMMA LedQuiet ==
    ASSUME Kept, Led, mode = "alb", NEW p, Procs = {p}, NEW d, d = call'[p],
           UNCHANGED <<mode, store, cloud, halted, holder, targets, born>>, LeadCall(p, d)'
    PROVE  Led'
<1>1. \A q : IsUp(q)' <=> IsUp(q)
  BY DEF IsUp
<1>2. \A x \in targets', q \in cloud : IsUp(q) /\ q.id = holder[x[2]] => q \in cloud' /\ IsUp(q)'
  BY <1>1
<1>3. \A i \in halted' : i <= born'
  BY DEF Led
<1>. QED  BY <1>2, <1>3, LedStays

\* A provision that goes on with what it has, while no address or rule comes.
LEMMA LeadSame ==
    ASSUME NEW p, NEW c, LeadProvision(p, c), NEW d, d.refs = c.refs, d.tenant = c.tenant,
           UNCHANGED store, targets' \subseteq targets,
           \A x \in targets' : holder'[x[2]] = holder[x[2]],
           \A r \in cloud' : r.kind = "rule" => r \in cloud,
           Registered(c) => Registered(d) \/ Unled(c.refs["task"])',
           Onward(p, d)', Backward(d)'
    PROVE  LeadProvision(p, d)'
<1>1. Leads(d.refs["task"], d.refs["tg"])'
  BY DEF LeadProvision, Leads
<1>2. ~Registered(d)' => Unled(d.refs["task"])'
  BY DEF LeadProvision, Unled, Registered
<1>3. d.refs["task"] # 0 => Unnamed("task", d.refs["task"])'
  BY DEF LeadProvision, Unnamed
<1>4. OnlyRule(d)'
  BY DEF LeadProvision, OnlyRule
<1>. QED  BY <1>1, <1>2, <1>3, <1>4 DEF LeadProvision

\* The call ends, with nothing stored.
LEMMA QuitLed ==
    ASSUME Kept, Led, NEW p, Procs = {p}, mode = "alb", Quit(p),
           UNCHANGED <<cloud, halted, store, holder, targets, born>>
    PROVE  Led'
<1>1. PICK d : d = call'[p]
  OBVIOUS
<1>2. d.op = "idle" /\ UNCHANGED mode /\ p \in Procs
  BY <1>1, QuitIs
<1>3. LeadCall(p, d)'
  BY <1>2 DEF LeadCall
<1>. QED  BY <1>1, <1>2, <1>3, LedQuiet

\* Every address behind the balancer is somebody's.
LEMMA NobodyLed ==
    ASSUME Kept, Led, mode = "alb"
    PROVE  Unled(0) /\ \A i : i > born => Unled(i)
<1>1. ASSUME NEW x \in targets
      PROVE  \E q \in cloud : q.id = holder[x[2]]
  BY <1>1 DEF Led, TargetsLive
<1>2. \A q \in cloud : q.id # 0 /\ q.id \in Nat /\ q.id <= born /\ born \in Nat
  BY ResourceIs
<1>. QED  BY <1>1, <1>2 DEF Unled

\* A provision begins with nothing, a teardown at its first step.
LEMMA BeginCallLed ==
    ASSUME Kept, Led, NEW p, Procs = {p}, mode = "alb", BeginCall(p)
    PROVE  Led'
<1>0. PICK t \in Tenants :
         \/ Provision(p, t)
         \/ \E f \in DeleteData : Read(p, "teardown", t, f)
  BY DEF BeginCall, Update
<1>1. PICK b : b = NoCall(t)
  OBVIOUS
<1>2. PICK d : d = call'[p]
  OBVIOUS
<1>3. /\ Full(b) /\ b.phase = "work" /\ b.at = 1 /\ b.refs = NoRef /\ \A k \in Kinds : NoRef[k] = 0
  BY <1>1, NoCallFields
<1>4. CASE Provision(p, t)
  <2>1. /\ d.op = "provision" /\ d.phase = "work" /\ d.refs = NoRef /\ d.at = 1
        /\ UNCHANGED <<cloud, mode, store, halted, born>>
    BY <1>1, <1>2, <1>3, <1>4, BeginsCall DEF Provision
  <2>2. UNCHANGED <<targets, holder>>
    BY <1>4 DEF Provision, Begin, world, network
  <2>3. d.refs["task"] = 0 /\ d.refs["rule"] = 0
    BY <1>3, <2>1 DEF Kinds
  <2>4. Unled(0)'
    BY <2>2, NobodyLed DEF Unled
  <2>5. LeadProvision(p, d)'
    BY <2>1, <2>3, <2>4 DEF LeadProvision, Leads, Unled, OnlyRule, Onward, Backward
  <2>6. LeadCall(p, d)'
    BY <2>1, <2>5 DEF LeadCall
  <2>. QED  BY <1>2, <2>1, <2>2, <2>6, LedQuiet
<1>5. ASSUME NEW f \in DeleteData, Read(p, "teardown", t, f)
      PROVE  Led'
  <2>1. PICK e : e = [b EXCEPT !.refs = store[t].refs, !.old = store[t].refs,
                               !.running = store[t].running, !.data = f]
    OBVIOUS
  <2>2. Full(e) /\ e.at = 1
    BY <1>3, <2>1 DEF Full
  <2>3. Begin(p, "teardown", t, e)
    BY <1>1, <1>5, <2>1 DEF Read
  <2>4. d.op = "teardown" /\ d.at = 1 /\ UNCHANGED <<cloud, mode, store, halted, born>>
    BY <1>2, <2>2, <2>3, BeginsCall
  <2>5. UNCHANGED <<targets, holder>>
    BY <2>3 DEF Begin, world, network
  <2>6. LeadCall(p, d)'
    BY <2>4 DEF LeadCall
  <2>. QED  BY <1>2, <2>4, <2>5, <2>6, LedQuiet
<1>. QED  BY <1>0, <1>4, <1>5

\* The store is read, or provisionAgent or teardownAgent returns.
LEMMA TurnLed ==
    ASSUME Kept, Led, NEW p, Procs = {p}, mode = "alb",
           Load(p) \/ Provisioned(p) \/ TornDown(p)
    PROVE  Led'
<1>1. PICK c : c = call[p]
  OBVIOUS
<1>2. PICK d : d = call'[p]
  OBVIOUS
<1>3. PICK x : Set(p, x) /\ \/ x = [c EXCEPT !.phase = "save", !.seen = store]
                            \/ x = [c EXCEPT !.phase = "load", !.running = TRUE]
                            \/ x = [c EXCEPT !.phase = "load"]
  BY <1>1 DEF Load, Provisioned, TornDown
<1>4. /\ p \in Procs /\ Full(c) /\ c.phase # "undo"
      /\ UNCHANGED <<cloud, store, halted, holder, targets, born, ip>>
  BY <1>1, HeldIs DEF Load, Provisioned, TornDown, Goes, world, network
<1>5. d = x /\ UNCHANGED mode
  BY <1>2, <1>3, <1>4, SetIs
<1>6. d.op = c.op /\ d.refs = c.refs /\ d.tenant = c.tenant /\ d.at = c.at /\ d.phase # "undo"
  BY <1>3, <1>4, <1>5 DEF Full
<1>7. LeadCall(p, c)
  BY <1>1 DEF Led
<1>8. LeadCall(p, d)'
  BY <1>4, <1>6, <1>7 DEF LeadCall, LeadProvision, Leads, Unled, Registered, Unnamed, OnlyRule,
                          Onward, HasTask, HasAddress, IsUp, Backward
<1>. QED  BY <1>2, <1>4, <1>5, <1>8, LedQuiet

\* A call that is cut short or has undone its stack.
LEMMA EndedLed ==
    ASSUME Kept, Led, NEW p, Procs = {p}, mode = "alb",
           Kill(p) \/ SaveFails(p) \/ DeleteFails(p) \/ Undone(p)
    PROVE  Led'
<1>1. Quit(p) /\ UNCHANGED <<cloud, halted, store, holder, targets, born>>
  BY DEF Kill, SaveFails, DeleteFails, Undone, GiveUp, world, network
<1>. QED  BY <1>1, QuitLed

\* A poll ends well: the address that the call resolves is its task's.
LEMMA WaitedLed ==
    ASSUME Kept, Led, NEW p, Procs = {p}, mode = "alb",
           WaitForHealthy(p) \/ ResolveTaskIp(p) \/ WaitTargetHealthy(p)
    PROVE  Led'
<1>1. PICK c : c = call[p]
  OBVIOUS
<1>2. PICK d : d = call'[p]
  OBVIOUS
<1>3. PICK x : x = Next1(p)
  OBVIOUS
<1>4. /\ Set(p, x) /\ Creating(p) /\ p \in Procs /\ UNCHANGED <<cloud, halted, targets, born, holder, store>>
      /\ CreateStep(p) \in Polls
      /\ CreateStep(p) # "ip" => UNCHANGED ip
      /\ CreateStep(p) = "ip" => \E a \in AddressOf(c.refs["task"]) : ip' = [ip EXCEPT ![p] = a]
  BY <1>1, <1>3 DEF WaitForHealthy, ResolveTaskIp, WaitTargetHealthy, Waited, history, Polls
<1>5. /\ Full(c) /\ c.op = "provision" /\ c.phase = "work" /\ c.at \in Nat \ {0}
      /\ c.at <= Len(CreateSteps) /\ CreateSteps[c.at] = CreateStep(p)
  BY <1>1, <1>4, HeldIs DEF Creating, Goes, CreateStep
<1>6. d = x /\ UNCHANGED mode
  BY <1>2, <1>4, SetIs
<1>7. d.op = "provision" /\ d.refs = c.refs /\ d.tenant = c.tenant /\ d.at = c.at + 1 /\ d.phase = "work"
  BY <1>1, <1>3, <1>5, <1>6 DEF Full, Next1
<1>8. c.at \in {6, 7, 11} /\ (c.at = 7 <=> CreateStep(p) = "ip")
  <2>1. CreateSteps[6] = "healthy" /\ CreateSteps[7] = "ip" /\ CreateSteps[11] = "targetHealthy"
    BY DEF CreateSteps
  <2>2. c.at \in {6, 7, 11}
    BY <1>4, <1>5, CreatePlaces DEF Polls, Kinds
  <2>. QED  BY <1>5, <2>1, <2>2
<1>9. LeadProvision(p, c)
  BY <1>1, <1>5 DEF Led, LeadCall
<1>10. HasTask(d)'
  <2>1. HasTask(c)
    BY <1>5, <1>8, <1>9 DEF LeadProvision, Onward
  <2>. QED  BY <1>4, <1>7, <2>1 DEF HasTask, IsUp
<1>11. c.at > 6 => HasAddress(p, d)'
  <2>1. CASE c.at = 7
    <3>1. PICK a \in AddressOf(c.refs["task"]) : ip' = [ip EXCEPT ![p] = a]
      BY <1>4, <1>8, <2>1
    <3>2. ip'[p] = a
      BY <3>1 DEF Kept, TypeOK
    <3>. QED  BY <1>4, <1>7, <3>1, <3>2 DEF AddressOf, HasAddress
  <2>2. CASE c.at = 11
    <3>1. HasAddress(p, c) /\ UNCHANGED ip
      BY <1>4, <1>5, <1>8, <1>9, <2>2 DEF LeadProvision, Onward
    <3>. QED  BY <1>4, <1>7, <3>1 DEF HasAddress
  <2>. QED  BY <1>8, <2>1, <2>2
<1>12. Onward(p, d)' /\ Backward(d)'
  BY <1>5, <1>7, <1>8, <1>10, <1>11 DEF Onward, Backward
<1>13. Registered(c) => Registered(d)
  BY <1>5, <1>7, <1>8 DEF Registered
<1>14. LeadProvision(p, d)'
  BY <1>4, <1>7, <1>9, <1>12, <1>13, LeadSame
<1>15. LeadCall(p, d)'
  BY <1>7, <1>14 DEF LeadCall
<1>. QED  BY <1>2, <1>4, <1>6, <1>15, LedQuiet

\* The address is registered: the task that runs has it, and the call its group.
LEMMA RegisterIpLed ==
    ASSUME Kept, Led, NEW p, Procs = {p}, mode = "alb", RegisterIp(p)
    PROVE  Led'
<1>1. PICK c : c = call[p]
  OBVIOUS
<1>2. PICK d : d = call'[p]
  OBVIOUS
<1>3. PICK x : x = [Next1(p) EXCEPT !.undo = @ \o <<"tg", "target", "rule">>]
  OBVIOUS
<1>4. PICK y : y = <<c.refs["tg"], ip[p]>>
  OBVIOUS
<1>5. /\ Set(p, x) /\ Creating(p) /\ CreateStep(p) = "target" /\ p \in Procs
      /\ UNCHANGED <<cloud, halted, born, holder, ip, store>>
      /\ targets' = targets \cup {y}
  BY <1>1, <1>3, <1>4 DEF RegisterIp, network, Real, AlbDeps, Wiring
<1>6. /\ Full(c) /\ c.op = "provision" /\ c.phase = "work" /\ c.at \in Nat \ {0}
      /\ c.at <= Len(CreateSteps) /\ CreateSteps[c.at] = "target" /\ GoodProvision(c)
      /\ \A r \in cloud, k \in Kinds : r.id = c.refs[k] \/ r.id = c.old[k] => r.tenant = c.tenant
  BY <1>1, <1>5, HeldIs DEF Creating, Goes, CreateStep, Good
<1>7. c.at = 10
  BY <1>6, CreatePlaces
<1>8. d = x /\ UNCHANGED mode
  BY <1>2, <1>5, SetIs
<1>9. d.op = "provision" /\ d.refs = c.refs /\ d.tenant = c.tenant /\ d.at = 11 /\ d.phase = "work"
  BY <1>1, <1>3, <1>6, <1>7, <1>8 DEF Full, Next1
<1>10. LeadProvision(p, c)
  BY <1>1, <1>6 DEF Led, LeadCall
<1>11. HasTask(c) /\ HasAddress(p, c) /\ Unled(c.refs["task"]) /\ OnlyRule(c)
  BY <1>6, <1>7, <1>10 DEF LeadProvision, Onward, Registered
<1>12. Has("tg", c.refs["tg"], c.tenant)
  BY <1>6, <1>7 DEF GoodProvision, HasMade, CreateAt, Kinds, Real, AlbDeps
<1>13. PICK q \in cloud : IsUp(q) /\ q.id = c.refs["task"]
  BY <1>11 DEF HasTask
<1>14. q.tenant = c.tenant /\ c.refs["task"] # 0
  BY <1>6, <1>13, ResourceIs DEF Kinds
<1>15. y[1] = c.refs["tg"] /\ y[2] \in Addresses /\ holder[y[2]] = q.id
  BY <1>4, <1>11, <1>13 DEF HasAddress
<1>16. TargetsLive'
  <2>1. \A z \in targets : z[2] \in Addresses /\ \E r \in cloud :
           IsUp(r) /\ r.id = holder[z[2]] /\ Has("tg", z[1], r.tenant)
    BY DEF Led, TargetsLive
  <2>2. \A z \in targets' : z[2] \in Addresses /\ \E r \in cloud :
           IsUp(r) /\ r.id = holder[z[2]] /\ Has("tg", z[1], r.tenant)
    BY <1>5, <1>12, <1>13, <1>14, <1>15, <2>1
  <2>3. \A r : IsUp(r)' <=> IsUp(r)
    BY <1>5 DEF IsUp
  <2>. QED  BY <1>5, <2>2, <2>3 DEF TargetsLive, Has
<1>17. RecordsLead'
  <2>1. ASSUME NEW t \in Tenants, store[t] # None
        PROVE  Leads(store[t].refs["task"], store[t].refs["tg"])'
    <3>1. store[t].refs["task"] # q.id
      BY <1>10, <1>13, <1>14, <2>1 DEF LeadProvision, Unnamed
    <3>2. Leads(store[t].refs["task"], store[t].refs["tg"])
      BY <2>1 DEF Led, RecordsLead
    <3>. QED  BY <1>5, <1>15, <3>1, <3>2 DEF Leads
  <2>. QED  BY <1>5, <2>1 DEF RecordsLead
<1>18. LeadProvision(p, d)'
  <2>1. Leads(d.refs["task"], d.refs["tg"])'
    BY <1>5, <1>9, <1>11, <1>15 DEF Leads, Unled
  <2>2. Unnamed("task", d.refs["task"])'
    BY <1>5, <1>9, <1>10, <1>14 DEF LeadProvision, Unnamed
  <2>3. OnlyRule(d)'
    BY <1>5, <1>9, <1>11 DEF OnlyRule
  <2>4. HasTask(d)' /\ HasAddress(p, d)'
    BY <1>5, <1>9, <1>11 DEF HasTask, HasAddress, IsUp
  <2>. QED  BY <1>9, <2>1, <2>2, <2>3, <2>4 DEF LeadProvision, Registered, Onward, Backward
<1>19. LeadCall(p, d)'
  BY <1>9, <1>18 DEF LeadCall
<1>. QED  BY <1>2, <1>5, <1>16, <1>17, <1>19 DEF Led

-----------------------------------------------------------------------------

\* What a provision that throws has registered, it finds.
LEMMA ThrowsBack ==
    ASSUME Kept, NEW p, NEW c, mode = "alb", LeadProvision(p, c), GoodProvision(c),
           c.phase = "work", c.at \in Nat \ {0}, c.at <= 11, Len(c.undo) \in Nat,
           NEW d, d.phase = "undo", d.undo = c.undo, d.refs = c.refs
    PROVE  (Registered(c) <=> Registered(d)) /\ Backward(d)
<1>1. Len(c.undo) = StackAt(c.at)
  BY DEF GoodProvision, StackOK
<1>2. CASE c.at <= 10
  <2>1. StackAt(c.at) < 6
    BY <1>2 DEF StackAt
  <2>2. ~(Len(d.undo) >= 6) /\ ~(c.at >= 11)
    BY <1>1, <1>2, <2>1
  <2>. QED  BY <2>2 DEF Registered, Backward
<1>3. CASE c.at = 11
  <2>1. Len(d.undo) = 8
    BY <1>1, <1>3 DEF StackAt
  <2>2. \A k \in {"tg", "rule"} : c.refs[k] # 0 /\ Has(k, c.refs[k], c.tenant)
    BY <1>3 DEF GoodProvision, HasMade, CreateAt, Kinds, Real, AlbDeps
  <2>. QED  BY <1>3, <2>1, <2>2 DEF Registered, Backward, Has, Exists
<1>. QED  BY <1>2, <1>3

LEMMA ThrowsLed ==
    ASSUME Kept, Led, NEW p, Procs = {p}, mode = "alb", Throws(p)
    PROVE  Led'
<1>1. PICK c : c = call[p]
  OBVIOUS
<1>2. PICK d : d = call'[p]
  OBVIOUS
<1>3. PICK x : x = [c EXCEPT !.phase = "undo"]
  OBVIOUS
<1>4. /\ Creating(p) /\ Set(p, x) /\ p \in Procs
      /\ UNCHANGED <<cloud, halted, holder, ip, targets, born, store>>
  BY <1>1, <1>3 DEF Throws, world, network
<1>5. /\ Full(c) /\ c.op = "provision" /\ c.phase = "work" /\ c.at \in Nat \ {0} /\ c.at <= 11
      /\ GoodProvision(c) /\ Len(c.undo) \in Nat
  BY <1>1, <1>4, HeldIs, CreatePlaces DEF Creating, Goes, Good
<1>6. d = x /\ UNCHANGED mode
  BY <1>2, <1>4, SetIs
<1>7. /\ d.op = "provision" /\ d.refs = c.refs /\ d.tenant = c.tenant /\ d.undo = c.undo
      /\ d.phase = "undo"
  BY <1>3, <1>5, <1>6 DEF Full
<1>8. LeadProvision(p, c)
  BY <1>1, <1>5 DEF Led, LeadCall
<1>9. (Registered(c) <=> Registered(d)) /\ Backward(d)
  BY <1>5, <1>7, <1>8, ThrowsBack
<1>10. Backward(d)' /\ Onward(p, d)'
  BY <1>4, <1>7, <1>9 DEF Backward, Onward, Exists
<1>11. LeadProvision(p, d)'
  BY <1>4, <1>7, <1>8, <1>9, <1>10, LeadSame
<1>12. LeadCall(p, d)'
  BY <1>7, <1>11 DEF LeadCall
<1>. QED  BY <1>2, <1>4, <1>6, <1>12, LedQuiet

\* What a step makes or finds: the task comes with an address that nobody has,
\* and the rule is its tenant's only one.
LEMMA GotLed ==
    ASSUME Kept, Led, NEW p, Procs = {p}, mode = "alb", Creating(p),
           NEW k \in Kinds, k = CreateStep(p), NEW i \in Nat,
           Set(p, Gets(p, k, i, GotUndo(p, k))), NEW c, c = call[p], NEW d, d = call'[p],
           UNCHANGED <<store, targets, ip>>,
           \A x \in targets' : holder'[x[2]] = holder[x[2]],
           k = "task" => i > born /\ HasTask(d)',
           k # "task" => \A r \in cloud : IsUp(r) => r \in cloud' /\ IsUp(r)',
           k # "task" => UNCHANGED holder,
           k # "rule" => \A r \in cloud' : r.kind = "rule" => r \in cloud,
           k = "rule" => \A r \in cloud' : r.kind = "rule" /\ r.tenant = c.tenant => r.id = i
    PROVE  LeadCall(p, d)'
<1>1. p \in Procs
  OBVIOUS
<1>2. /\ c.op = "provision" /\ c.phase = "work" /\ c.at = CreateAt(k) /\ c.at \in Nat \ {0}
      /\ \A j \in Kinds : CreateAt(j) > c.at => c.refs[j] = 0
      /\ \A j \in Kinds : c.refs[j] # 0 => CreateAt(j) < c.at
  BY <1>1, CreatingIs
<1>3. /\ d.op = "provision" /\ d.tenant = c.tenant /\ d.phase = "work" /\ d.at = c.at + 1
      /\ d.refs[k] = i /\ \A j \in Kinds \ {k} : d.refs[j] = c.refs[j]
  BY <1>1, GotIs
<1>4. LeadProvision(p, c)
  BY <1>1, <1>2 DEF Led, LeadCall
<1>5. c.at <= 9 /\ ~Registered(c) /\ ~Registered(d)
  <2>1. CreateAt(k) \in 1 .. 9
    BY DEF CreateAt, Kinds
  <2>. QED  BY <1>2, <1>3, <2>1 DEF Registered
<1>6. {"task", "tg", "rule"} \subseteq Kinds
  BY DEF Kinds
<1>7. Unled(d.refs["task"])'
  <2>1. CASE k = "task"
    <3>1. Unled(i)
      BY <2>1, NobodyLed
    <3>. QED  BY <1>3, <2>1, <3>1 DEF Unled
  <2>2. CASE k # "task"
    <3>1. d.refs["task"] = c.refs["task"] /\ Unled(c.refs["task"])
      BY <1>3, <1>4, <1>5, <1>6, <2>2 DEF LeadProvision
    <3>. QED  BY <3>1 DEF Unled
  <2>. QED  BY <2>1, <2>2
<1>8. Leads(d.refs["task"], d.refs["tg"])'
  BY <1>7 DEF Leads, Unled
<1>9. d.refs["task"] # 0 => Unnamed("task", d.refs["task"])'
  <2>1. CASE k = "task"
    <3>1. \A t \in Tenants : store[t] # None => store[t].refs["task"] <= born
      BY <1>6, RecordBorn
    <3>2. \A t \in Tenants : store[t] # None => store[t].refs["task"] \in Nat
      BY <1>6 DEF Kept, TypeOK, AgentRecord, Refs, Ids
    <3>3. born \in Nat
      BY DEF Kept, IInv, Types
    <3>4. \A t \in Tenants : store[t] # None => store[t].refs["task"] # i
      BY <2>1, <3>1, <3>2, <3>3
    <3>. QED  BY <1>3, <2>1, <3>4 DEF Unnamed
  <2>2. CASE k # "task"
    <3>1. d.refs["task"] = c.refs["task"]
      BY <1>3, <1>6, <2>2
    <3>. QED  BY <1>4, <3>1 DEF LeadProvision, Unnamed
  <2>. QED  BY <2>1, <2>2
<1>10. OnlyRule(d)'
  <2>1. CASE k = "rule"
    BY <1>3, <2>1 DEF OnlyRule
  <2>2. CASE k # "rule"
    <3>1. CreateAt("rule") = 9 /\ c.refs["rule"] = d.refs["rule"]
      BY <1>3, <1>6, <2>2 DEF CreateAt
    <3>2. d.refs["rule"] = 0
      BY <1>2, <1>5, <1>6, <3>1
    <3>. QED  BY <3>2 DEF OnlyRule
  <2>. QED  BY <2>1, <2>2
<1>11. Onward(p, d)'
  <2>1. CASE k = "task"
    <3>1. CreateAt("task") = 5
      BY DEF CreateAt
    <3>2. d.at = 6
      BY <1>2, <1>3, <2>1, <3>1
    <3>. QED  BY <2>1, <3>2 DEF Onward
  <2>2. CASE k # "task"
    <3>1. d.refs["task"] = c.refs["task"] /\ c.at # 5
      <4>1. CreateAt(k) # 5
        BY <2>2 DEF CreateAt, Kinds
      <4>. QED  BY <1>2, <1>3, <1>6, <2>2, <4>1
    <3>2. c.at > 5 => HasTask(c)
      BY <1>2, <1>4 DEF LeadProvision, Onward
    <3>3. c.at > 7 => HasAddress(p, c)
      BY <1>2, <1>4 DEF LeadProvision, Onward
    <3>4. d.at > 5 => HasTask(d)'
      BY <1>2, <1>3, <2>2, <3>1, <3>2 DEF HasTask
    <3>5. d.at > 7 => HasAddress(p, d)'
      <4>1. c.at # 7
        <5>1. CreateAt(k) # 7
          BY DEF CreateAt, Kinds
        <5>. QED  BY <1>2, <5>1
      <4>2. d.at > 7 => c.at > 7
        BY <1>2, <1>3, <4>1
      <4>. QED  BY <2>2, <3>1, <3>3, <4>2 DEF HasAddress
    <3>. QED  BY <3>4, <3>5 DEF Onward
  <2>. QED  BY <2>1, <2>2
<1>12. Backward(d)'
  BY <1>3 DEF Backward
<1>13. LeadProvision(p, d)'
  BY <1>7, <1>8, <1>9, <1>10, <1>11, <1>12 DEF LeadProvision
<1>. QED  BY <1>3, <1>13 DEF LeadCall

\* The addresses that are registered stay whose they were when a resource comes.
LEMMA MakesLed ==
    ASSUME Kept, Led, NEW p, Procs = {p}, mode = "alb", NEW d, d = call'[p], NEW n, Brings(n),
           NEW k, TakesAddress(k, born + 1), UNCHANGED targets
    PROVE  /\ \A x \in targets' : holder'[x[2]] = holder[x[2]]
           /\ LeadCall(p, d)' => Led'
<1>1. \A x \in targets : x[2] \in Addresses /\ Exists("task", holder[x[2]])
  BY DEF Led, TargetsLive, Exists, IsUp
<1>2. \A x \in targets' : holder'[x[2]] = holder[x[2]]
  BY <1>1 DEF TakesAddress, Kept, TypeOK
<1>3. /\ UNCHANGED <<mode, store, halted>> /\ cloud \subseteq cloud' /\ born' = born + 1
  BY DEF Brings
<1>4. \A q \in cloud : IsUp(q)' <=> IsUp(q)
  BY <1>3 DEF IsUp
<1>5. \A x \in targets', q \in cloud : IsUp(q) /\ q.id = holder[x[2]] => q \in cloud' /\ IsUp(q)'
  BY <1>3, <1>4
<1>6. \A x \in targets', q \in cloud : q.kind = "tg" /\ q.id = x[1] => q \in cloud'
  BY <1>3
<1>7. \A i \in halted' : i <= born'
  <2>1. \A i \in halted : i \in Nat /\ i <= born
    BY DEF Led, Kept, TypeOK, Ids
  <2>2. born \in Nat
    BY DEF Kept, IInv, Types
  <2>. QED  BY <1>3, <2>1, <2>2
<1>8. LeadCall(p, d)' => Led'
  BY <1>2, <1>3, <1>5, <1>6, <1>7, LedStays
<1>. QED  BY <1>2, <1>8

\* A step of provisionAgent makes or finds.
LEMMA CreateLed ==
    ASSUME Kept, Led, NEW p, Procs = {p}, mode = "alb", Create(p)
    PROVE  Led'
<1>1. PICK k : k = CreateStep(p)
  OBVIOUS
<1>2. PICK c : c = call[p]
  OBVIOUS
<1>3. PICK d : d = call'[p]
  OBVIOUS
<1>4. \A j \in Kinds : Real(j)
  BY DEF Real, AlbDeps
<1>5. /\ Creating(p) /\ k \in Kinds /\ ~NameTaken(k, c.tenant)
      /\ UNCHANGED <<halted, targets, ip, kept, lost, store>>
      /\ \/ /\ Set(p, Gets(p, k, born + 1, GotUndo(p, k)))
            /\ Make(k, c.tenant, c.refs)
         \/ /\ \E r \in Existing(k, c.tenant) : Set(p, Gets(p, k, r.id, GotUndo(p, k)))
            /\ UNCHANGED <<cloud, born, holder>>
  BY <1>1, <1>2, <1>4 DEF Create, Gets, GotUndo, history
<1>6. p \in Procs /\ born \in Nat /\ born + 1 \in Nat
  BY DEF Kept, IInv, Types
<1>7. CASE \E r \in Existing(k, c.tenant) : Set(p, Gets(p, k, r.id, GotUndo(p, k)))
                                            /\ UNCHANGED <<cloud, born, holder>>
  <2>1. PICK r \in Existing(k, c.tenant) : Set(p, Gets(p, k, r.id, GotUndo(p, k)))
                                           /\ UNCHANGED <<cloud, born, holder>>
    BY <1>7
  <2>2. k = "tg" /\ r.id \in Nat
    BY <2>1, ResourceIs DEF Existing
  <2>3. UNCHANGED mode
    BY <1>1, <1>5, <1>6, <2>1, <2>2, GotIs
  <2>4. \A q \in cloud : IsUp(q) => q \in cloud' /\ IsUp(q)'
    BY <1>5, <2>1 DEF IsUp
  <2>5. LeadCall(p, d)'
    BY <1>1, <1>2, <1>3, <1>5, <2>1, <2>2, <2>4, GotLed
  <2>. QED  BY <1>3, <1>5, <2>1, <2>3, <2>5, LedQuiet
<1>8. CASE Set(p, Gets(p, k, born + 1, GotUndo(p, k))) /\ Make(k, c.tenant, c.refs)
  <2>1. PICK n : n = [kind |-> k, id |-> born + 1, tenant |-> c.tenant, refs |-> c.refs]
    OBVIOUS
  <2>2. c.tenant \in Tenants /\ c.refs \in WideRefs
    BY <1>1, <1>2, <1>5, <1>6, CreatingIs
  <2>3. UNCHANGED mode /\ d.refs[k] = born + 1
    BY <1>1, <1>3, <1>5, <1>6, <1>8, GotIs
  <2>4. Brings(n) /\ n.kind = k /\ n.id = born + 1 /\ n.tenant = c.tenant
    BY <1>5, <1>8, <2>1, <2>2, <2>3, MakeBrings
  <2>5. TakesAddress(k, born + 1)
    BY <1>8 DEF Make
  <2>6. \A x \in targets' : holder'[x[2]] = holder[x[2]]
    BY <1>3, <1>5, <2>4, <2>5, MakesLed
  <2>7. n \in cloud' /\ cloud \subseteq cloud' /\ \A r \in cloud' : r = n \/ r \in cloud
    BY <2>4 DEF Brings
  <2>8. \A q \in cloud : IsUp(q) => q \in cloud' /\ IsUp(q)'
    BY <1>5, <2>7 DEF IsUp
  <2>9. k # "task" => UNCHANGED holder
    BY <2>5 DEF TakesAddress
  <2>10. k = "task" => HasTask(d)'
    <3>1. born + 1 \notin halted
      BY <1>6 DEF Led
    <3>. QED  BY <1>5, <2>3, <2>4, <2>7, <3>1 DEF HasTask, IsUp
  <2>11. k # "rule" => \A r \in cloud' : r.kind = "rule" => r \in cloud
    BY <2>4, <2>7
  <2>12. k = "rule" => \A r \in cloud' : r.kind = "rule" /\ r.tenant = c.tenant => r.id = born + 1
    <3>1. k = "rule" => \A r \in cloud : r.kind = "rule" => r.tenant # c.tenant
      BY <1>4, <1>5 DEF NameTaken, PriorityTaken
    <3>. QED  BY <2>4, <2>7, <3>1
  <2>13. LeadCall(p, d)'
    BY <1>1, <1>2, <1>3, <1>5, <1>6, <1>8, <2>6, <2>8, <2>9, <2>10, <2>11, <2>12, GotLed
  <2>. QED  BY <1>3, <1>5, <2>4, <2>5, <2>13, MakesLed
<1>. QED  BY <1>5, <1>7, <1>8

\* A group whose rules could not be set.
LEMMA SgRulesFailLed ==
    ASSUME Kept, Led, NEW p, Procs = {p}, mode = "alb", SgRulesFail(p)
    PROVE  Led'
<1>1. PICK c : c = call[p]
  OBVIOUS
<1>2. PICK d : d = call'[p]
  OBVIOUS
<1>3. PICK x : x = [c EXCEPT !.phase = "undo"]
  OBVIOUS
<1>4. PICK n : n = [kind |-> "sg", id |-> born + 1, tenant |-> c.tenant, refs |-> c.refs]
  OBVIOUS
<1>5. /\ Creating(p) /\ "sg" = CreateStep(p) /\ p \in Procs /\ Set(p, x) /\ "sg" \in Kinds
      /\ Make("sg", c.tenant, c.refs) /\ lost' = lost \cup {born + 1}
      /\ UNCHANGED <<halted, targets, ip, kept, store>>
  BY <1>1, <1>3 DEF SgRulesFail, Kinds
<1>6. /\ Full(c) /\ c.op = "provision" /\ c.phase = "work" /\ c.tenant \in Tenants /\ c.refs \in WideRefs
      /\ GoodProvision(c) /\ c.at \in Nat \ {0} /\ c.at <= 11 /\ Len(c.undo) \in Nat
  <2>1. CreateAt("sg") = 3
    BY DEF CreateAt
  <2>. QED  BY <1>1, <1>5, <2>1, CreatingIs, HeldIs
<1>7. d = x /\ UNCHANGED mode
  BY <1>2, <1>5, SetIs
<1>8. /\ d.op = "provision" /\ d.refs = c.refs /\ d.tenant = c.tenant /\ d.undo = c.undo
      /\ d.phase = "undo"
  BY <1>3, <1>6, <1>7 DEF Full
<1>9. Brings(n) /\ n.kind = "sg"
  BY <1>4, <1>5, <1>6, <1>7, MakeBrings
<1>10. TakesAddress("sg", born + 1) /\ UNCHANGED holder
  BY <1>5 DEF Make, TakesAddress
<1>11. \A r \in cloud' : r.kind = "rule" => r \in cloud
  BY <1>9 DEF Brings
<1>12. LeadProvision(p, c)
  BY <1>1, <1>5, <1>6 DEF Led, LeadCall
<1>13. Registered(c) <=> Registered(d)
  BY <1>6, <1>8, <1>12, ThrowsBack
<1>14. ~Registered(c)
  <2>1. CreateAt("sg") = 3 /\ c.at = CreateAt("sg")
    BY <1>1, <1>5, CreatingIs DEF CreateAt
  <2>. QED  BY <1>6, <2>1 DEF Registered
<1>15. Onward(p, d)' /\ Backward(d)'
  BY <1>8, <1>13, <1>14 DEF Onward, Backward, Registered
<1>16. LeadProvision(p, d)'
  BY <1>5, <1>8, <1>10, <1>11, <1>12, <1>13, <1>15, LeadSame
<1>17. LeadCall(p, d)'
  BY <1>8, <1>16 DEF LeadCall
<1>. QED  BY <1>2, <1>5, <1>9, <1>10, <1>17, MakesLed

-----------------------------------------------------------------------------

\* What goes leads nowhere any more: a task is told to stop when no address of
\* it is registered, and a group takes its addresses with it.
LEMMA RemovalLed ==
    ASSUME Kept, Led, NEW p, Procs = {p}, mode = "alb", NEW c, c = call[p], NEW d, d = call'[p],
           NEW k \in Entry, NEW a, Accepts(k, c), Removal(k, c, a),
           k = "task" => Unled(c.refs["task"]),
           UNCHANGED <<mode, store, holder, born>>, kept \subseteq kept', lost \subseteq lost'
    PROVE  /\ targets' \subseteq targets /\ cloud' \subseteq cloud
           /\ k = "tg" => \A x \in targets' : x[1] # c.refs["tg"]
           /\ k # "tg" => \A q \in cloud : q.kind = "tg" => q \in cloud'
           /\ k = "rule" => ~Exists("rule", c.refs["rule"])'
           /\ LeadCall(p, d)' => Led'
<1>1. /\ targets' \subseteq targets /\ cloud' \subseteq cloud
      /\ \A q \in cloud : q \in cloud' \/ (q.kind = k /\ q.id = c.refs[k] /\ k # "task")
      /\ \A q \in cloud : IsUp(q) => IsUp(q)' \/ (k = "task" /\ q.id = c.refs["task"])
      /\ \A i \in halted' : i \in halted \/ Exists("task", i)
      /\ k = "tg" => \A x \in targets' : x[1] # c.refs["tg"]
      /\ k = "rule" => ~Exists("rule", c.refs["rule"])'
  <2>1. CASE k = "target"
    <3>1. targets' \subseteq targets /\ UNCHANGED <<cloud, halted>>
      BY <2>1 DEF Removal
    <3>. QED  BY <2>1, <3>1 DEF IsUp
  <2>2. CASE k # "target"
    <3>1. ~Refused(k, c.refs[k]) /\ Unmake(k, c.refs[k], c.tenant)
      BY <2>2 DEF Accepts, Removal
    <3>2. /\ cloud' \subseteq cloud
          /\ \A q \in cloud : q \in cloud' \/ (q.kind = k /\ q.id = c.refs[k] /\ k # "task")
      BY <3>1, RemovalShrinks
    <3>3. CASE k = "task"
      <4>1. UNCHANGED <<cloud, targets>> /\ halted' = halted \cup {i \in {c.refs["task"]} : Exists("task", i)}
        BY <3>1, <3>3 DEF Unmake
      <4>2. \A q \in cloud : IsUp(q) => IsUp(q)' \/ q.id = c.refs["task"]
        BY <4>1 DEF IsUp
      <4>. QED  BY <3>2, <3>3, <4>1, <4>2
    <3>4. CASE k # "task"
      <4>1. /\ cloud' = cloud \ {r \in cloud : r.kind = k /\ r.id = c.refs[k]}
            /\ halted' \subseteq halted
            /\ targets' = IF k = "tg" THEN {x \in targets : x[1] # c.refs[k]} ELSE targets
        BY <3>1, <3>4 DEF Unmake
      <4>2. \A q \in cloud : IsUp(q) => IsUp(q)'
        BY <4>1 DEF IsUp
      <4>3. k = "rule" => ~Exists("rule", c.refs["rule"])'
        BY <4>1 DEF Exists
      <4>. QED  BY <3>2, <3>4, <4>1, <4>2, <4>3
    <3>. QED  BY <3>3, <3>4
  <2>. QED  BY <2>1, <2>2
<1>2. \A x \in targets', q \in cloud : IsUp(q) /\ q.id = holder[x[2]] => q \in cloud' /\ IsUp(q)'
  BY <1>1 DEF Unled, IsUp
<1>3. \A x \in targets', q \in cloud : q.kind = "tg" /\ q.id = x[1] => q \in cloud'
  BY <1>1
<1>4. \A i \in halted' : i <= born'
  BY <1>1, ResourceIs DEF Led, Exists
<1>5. \A x \in targets' : holder'[x[2]] = holder[x[2]]
  OBVIOUS
<1>6. LeadCall(p, d)' => Led'
  BY <1>1, <1>2, <1>3, <1>4, <1>5, LedStays
<1>. QED  BY <1>1, <1>6

\* No rule but its own uses the target group of a provision.
LEMMA OwnRule ==
    ASSUME Kept, NEW p \in Procs, NEW c, c = call[p], c.refs["rule"] # 0, OnlyRule(c),
           ~Exists("rule", c.refs["rule"]), Exists("tg", c.refs["tg"]), mode = "alb"
    PROVE  ~Refused("tg", c.refs["tg"])
<1>1. SUFFICES ASSUME NEW r \in cloud, r.kind = "rule", r.refs["tg"] = c.refs["tg"] PROVE FALSE
  BY DEF Refused
<1>2. PICK g \in cloud : g.kind = "tg" /\ g.id = r.refs["tg"] /\ g.tenant = r.tenant
  BY <1>1 DEF Kept, World, RulesWired, Has
<1>3. r.tenant = c.tenant
  BY <1>1, <1>2, HeldIs DEF Kinds
<1>. QED  BY <1>1, <1>3 DEF OnlyRule, Exists

\* A rollback takes the rule, the addresses and the group before the task.
LEMMA UndoLed ==
    ASSUME Kept, Led, NEW p, Procs = {p}, mode = "alb", Undo(p)
    PROVE  Led'
<1>1. PICK c : c = call[p]
  OBVIOUS
<1>2. PICK d : d = call'[p]
  OBVIOUS
<1>3. PICK k : k = Top(p)
  OBVIOUS
<1>4. PICK n : n = Len(c.undo)
  OBVIOUS
<1>5. /\ c.op = "provision" /\ c.phase = "undo" /\ p \in Procs
      /\ n \in Nat \ {0} /\ k \in Entry /\ UndoAt(k) = n
  BY <1>1, <1>3, <1>4, TopIs DEF Undo
<1>6. /\ d.op = "provision" /\ d.refs = c.refs /\ d.tenant = c.tenant /\ d.phase = "undo"
      /\ Len(d.undo) = n - 1 /\ UNCHANGED mode
  <2>1. PICK m : m = n - 1
    OBVIOUS
  <2>2. m \in Nat /\ m <= n
    BY <1>5, <2>1
  <2>3. m <= Len(c.undo)
    BY <1>4, <2>2
  <2>4. Undoing(p) /\ Set(p, [c EXCEPT !.undo = SubSeq(@, 1, m)])
    BY <1>1, <1>4, <2>1 DEF Undo
  <2>5. /\ d.op = "provision" /\ d.refs = c.refs /\ d.tenant = c.tenant /\ d.phase = "undo"
        /\ Len(d.undo) = m /\ UNCHANGED mode
    BY <1>1, <1>2, <1>5, <2>2, <2>3, <2>4, PopIs
  <2>. QED  BY <2>1, <2>5
<1>7. Real(k)
  BY <1>5 DEF Real, AlbDeps, Entry, Wiring
<1>8. /\ Accepts(k, c) /\ Removal(k, c, ip[p])
      /\ UNCHANGED <<store, holder, born>> /\ UNCHANGED <<kept, lost>>
  BY <1>1, <1>3, <1>7 DEF Undo, network, history
<1>9. LeadProvision(p, c)
  BY <1>1, <1>5 DEF Led, LeadCall
<1>10. /\ k = "task" <=> n = 5
       /\ k = "tg" <=> n = 6
       /\ n >= 7 => (k = "rule" <=> n = 8) /\ k # "tg" /\ n <= 8
  BY <1>5 DEF UndoAt, Entry, Kinds
<1>11. k = "task" => Unled(c.refs["task"])
  <2>1. Registered(c) <=> n >= 6
    BY <1>4, <1>5 DEF Registered
  <2>2. k = "task" => ~(n >= 6)
    BY <1>10
  <2>. QED  BY <1>9, <2>1, <2>2 DEF LeadProvision
<1>12. /\ targets' \subseteq targets /\ cloud' \subseteq cloud
       /\ k = "tg" => \A x \in targets' : x[1] # c.refs["tg"]
       /\ k # "tg" => \A q \in cloud : q.kind = "tg" => q \in cloud'
       /\ k = "rule" => ~Exists("rule", c.refs["rule"])'
       /\ LeadCall(p, d)' => Led'
  BY <1>1, <1>2, <1>5, <1>6, <1>8, <1>11, RemovalLed
<1>13. Registered(c) => Registered(d) \/ Unled(c.refs["task"])'
  <2>1. k = "tg" => Unled(c.refs["task"])'
    BY <1>8, <1>9, <1>12 DEF LeadProvision, Leads, Unled
  <2>2. Registered(c) /\ n # 6 => Registered(d)
    <3>1. (Registered(c) <=> n >= 6) /\ (Registered(d) <=> n - 1 >= 6)
      BY <1>4, <1>5, <1>6 DEF Registered
    <3>2. n >= 6 /\ n # 6 => n - 1 >= 6
      BY <1>5
    <3>. QED  BY <3>1, <3>2
  <2>. QED  BY <1>10, <2>1, <2>2
<1>14. Backward(d)'
  <2>1. SUFFICES ASSUME n >= 7
                 PROVE  /\ d.refs["rule"] # 0 /\ Exists("tg", d.refs["tg"])'
                        /\ ~Exists("rule", d.refs["rule"])' /\ n - 1 # 8
    BY <1>5, <1>6 DEF Backward
  <2>2. /\ c.refs["rule"] # 0 /\ Exists("tg", c.refs["tg"])
        /\ Exists("rule", c.refs["rule"]) <=> n = 8
    BY <1>4, <1>5, <1>9, <2>1 DEF LeadProvision, Backward
  <2>3. Exists("tg", d.refs["tg"])'
    BY <1>6, <1>10, <1>12, <2>1, <2>2 DEF Exists
  <2>4. ~Exists("rule", d.refs["rule"])'
    BY <1>6, <1>10, <1>12, <2>1, <2>2 DEF Exists
  <2>5. n - 1 # 8
    BY <1>5, <1>10, <2>1
  <2>. QED  BY <1>6, <2>2, <2>3, <2>4, <2>5
<1>15. Onward(p, d)'
  BY <1>6 DEF Onward
<1>16. \A x \in targets' : holder'[x[2]] = holder[x[2]]
  BY <1>8
<1>17. \A r \in cloud' : r.kind = "rule" => r \in cloud
  BY <1>12
<1>18. LeadProvision(p, d)'
  BY <1>6, <1>8, <1>9, <1>12, <1>13, <1>14, <1>15, <1>16, <1>17, LeadSame
<1>19. LeadCall(p, d)'
  BY <1>6, <1>18 DEF LeadCall
<1>. QED  BY <1>12, <1>19

\* It swallows an error, but none of removeAlbWiring's.
LEMMA UndoFailsLed ==
    ASSUME Kept, Led, NEW p, Procs = {p}, mode = "alb", UndoFails(p), "unwire" \notin Faults
    PROVE  Led'
<1>1. PICK c : c = call[p]
  OBVIOUS
<1>2. PICK d : d = call'[p]
  OBVIOUS
<1>3. PICK k : k = Top(p)
  OBVIOUS
<1>4. PICK m : m = Len(c.undo) - Entries(k)
  OBVIOUS
<1>5. /\ c.op = "provision" /\ c.phase = "undo" /\ p \in Procs
      /\ Len(c.undo) \in Nat \ {0} /\ k \in Entry /\ UndoAt(k) = Len(c.undo)
      /\ Entries(k) \in 1 .. Len(c.undo)
  BY <1>1, <1>3, TopIs DEF UndoFails
<1>6. m \in Nat /\ m <= Len(c.undo)
  BY <1>4, <1>5
<1>7. Undoing(p) /\ Set(p, [c EXCEPT !.undo = SubSeq(@, 1, m)])
  BY <1>1, <1>3, <1>4 DEF UndoFails
<1>8. /\ d.op = "provision" /\ d.refs = c.refs /\ d.tenant = c.tenant /\ d.phase = "undo"
      /\ Len(d.undo) = m /\ UNCHANGED mode
  BY <1>1, <1>2, <1>5, <1>6, <1>7, PopIs
<1>9. UNCHANGED <<cloud, halted, store, holder, targets, born>>
  BY DEF UndoFails, network
<1>10. LeadProvision(p, c)
  BY <1>1, <1>5 DEF Led, LeadCall
<1>11. k \notin Wiring
  <2>1. SUFFICES ASSUME k \in Wiring PROVE FALSE
    OBVIOUS
  <2>2. ~Accepts(k, c)
    <3>1. UndoFault(k) = "unwire"
      BY <2>1 DEF UndoFault, Wiring
    <3>. QED  BY <1>1, <1>3, <3>1 DEF UndoFails, Fault
  <2>3. Len(c.undo) >= 6 /\ (k = "rule" <=> Len(c.undo) = 8)
    <3>1. /\ k = "tg" => UndoAt(k) = 6
          /\ k = "target" => UndoAt(k) = 7
          /\ k = "rule" => UndoAt(k) = 8
      BY DEF UndoAt
    <3>2. UndoAt(k) >= 6 /\ (k = "rule" <=> UndoAt(k) = 8)
      BY <2>1, <3>1 DEF Wiring
    <3>. QED  BY <1>5, <3>2
  <2>4. /\ c.refs["rule"] # 0 /\ Exists("tg", c.refs["tg"]) /\ OnlyRule(c)
        /\ Exists("rule", c.refs["rule"]) <=> k = "rule"
    BY <1>5, <1>10, <2>3 DEF LeadProvision, Backward
  <2>5. CASE k = "rule"
    BY <2>2, <2>4, <2>5 DEF Accepts, Refused
  <2>6. CASE k = "target"
    BY <2>2, <2>4, <2>6 DEF Accepts
  <2>7. CASE k = "tg"
    BY <1>1, <1>5, <2>2, <2>4, <2>7, OwnRule DEF Accepts
  <2>. QED  BY <2>1, <2>5, <2>6, <2>7 DEF Wiring
<1>12. Len(c.undo) <= 5
  <2>1. k \in Parts \/ k = "task"
    BY <1>5, <1>11, UndoPlaces
  <2>. QED  BY <1>5, <2>1, UndoPlaces
<1>13. ~Registered(c) /\ ~(Len(d.undo) >= 6)
  BY <1>5, <1>6, <1>8, <1>12 DEF Registered
<1>14. Onward(p, d)' /\ Backward(d)'
  BY <1>8, <1>13 DEF Onward, Backward
<1>15. LeadProvision(p, d)'
  BY <1>8, <1>9, <1>10, <1>13, <1>14, LeadSame
<1>16. LeadCall(p, d)'
  BY <1>8, <1>15 DEF LeadCall
<1>. QED  BY <1>2, <1>8, <1>9, <1>16, LedQuiet

\* A teardown takes the group, with the addresses, before the task.
LEMMA DeleteLed ==
    ASSUME Kept, Led, NEW p, Procs = {p}, mode = "alb", Delete(p)
    PROVE  Led'
<1>1. PICK c : c = call[p]
  OBVIOUS
<1>2. PICK d : d = call'[p]
  OBVIOUS
<1>3. PICK k : k = TeardownStep(p)
  OBVIOUS
<1>4. PICK x : x = Next1(p)
  OBVIOUS
<1>5. /\ Full(c) /\ GoodRead(c) /\ c.op = "teardown" /\ c.phase = "work" /\ p \in Procs
      /\ c.at \in Nat \ {0} /\ c.at <= Len(TeardownSteps) /\ TeardownSteps[c.at] = k
      /\ c.tenant \in Tenants
  BY <1>1, <1>3, HeldIs DEF Delete, TearingDown, TeardownStep, Goes, Good
<1>6. /\ k \in Entry /\ c.at <= 8 /\ \A j \in Kinds : TeardownAt(j) = c.at <=> j = k
  BY <1>5, TeardownPlaces
<1>7. /\ Set(p, x) /\ UNCHANGED <<lost, store, born, holder>> /\ kept \subseteq kept'
      /\ \/ Skips(p) /\ UNCHANGED <<cloud, halted, targets>>
         \/ ~Skips(p) /\ Accepts(k, c) /\ Removal(k, c, ip[p])
  BY <1>1, <1>3, <1>4 DEF Delete
<1>8. d = x /\ UNCHANGED mode
  BY <1>2, <1>5, <1>7, SetIs
<1>9. d.op = "teardown" /\ d.refs = c.refs /\ d.at = c.at + 1
  BY <1>1, <1>4, <1>5, <1>8 DEF Full, Next1
<1>10. c.at > 3 => Unled(c.refs["task"])
  BY <1>1, <1>5 DEF Led, LeadCall
<1>11. Leads(c.refs["task"], c.refs["tg"]) /\ \A j \in Kinds : c.refs[j] # 0
  BY <1>5 DEF GoodRead, Led, RecordsLead, Kept, World, FullRecords
<1>12. (c.at = 3 <=> k = "tg") /\ (k = "task" => c.at = 4)
  <2>1. TeardownAt("tg") = 3 /\ TeardownAt("task") = 4 /\ {"tg", "task"} \subseteq Kinds
    BY DEF TeardownAt, Kinds
  <2>. QED  BY <1>6, <2>1
<1>13. CASE Skips(p) /\ UNCHANGED <<cloud, halted, targets>>
  <2>1. k # "tg"
    <3>1. {"rule", "tg", "task"} \subseteq Kinds
      BY DEF Kinds
    <3>. QED  BY <1>1, <1>3, <1>11, <1>13, <3>1 DEF Skips
  <2>2. d.at > 3 => c.at > 3
    BY <1>5, <1>9, <1>12, <2>1
  <2>3. LeadCall(p, d)'
    BY <1>7, <1>9, <1>10, <1>13, <2>2 DEF LeadCall, Unled
  <2>. QED  BY <1>2, <1>7, <1>8, <1>13, <2>3, LedQuiet
<1>14. CASE Accepts(k, c) /\ Removal(k, c, ip[p])
  <2>1. /\ targets' \subseteq targets
        /\ k = "tg" => \A z \in targets' : z[1] # c.refs["tg"]
        /\ LeadCall(p, d)' => Led'
    <3>1. k = "task" => Unled(c.refs["task"])
      BY <1>10, <1>12
    <3>2. UNCHANGED <<mode, store, holder, born>> /\ kept \subseteq kept' /\ lost \subseteq lost'
      BY <1>7, <1>8
    <3>. QED  BY <1>1, <1>2, <1>6, <1>14, <3>1, <3>2, RemovalLed
  <2>2. d.at > 3 => Unled(c.refs["task"])'
    <3>1. CASE c.at > 3
      BY <1>7, <1>10, <2>1, <3>1 DEF Unled
    <3>2. CASE c.at = 3
      BY <1>7, <1>11, <1>12, <2>1, <3>2 DEF Leads, Unled
    <3>. QED  BY <1>5, <1>9, <3>1, <3>2
  <2>3. LeadCall(p, d)'
    BY <1>9, <2>2 DEF LeadCall
  <2>. QED  BY <2>1, <2>3
<1>. QED  BY <1>7, <1>13, <1>14

\* A task that was told to stop is gone, and no address of it was registered.
LEMMA TaskGoneLed ==
    ASSUME Kept, Led, NEW p, Procs = {p}, mode = "alb", TaskGone
    PROVE  Led'
<1>1. PICK c : c = call[p]
  OBVIOUS
<1>2. /\ UNCHANGED <<mode, targets, born, holder, ip, store, call>> /\ halted' \subseteq halted
      /\ cloud' \subseteq cloud /\ \A q \in cloud : q \in cloud' \/ (q.kind = "task" /\ ~IsUp(q))
  BY DEF TaskGone, settings, network, IsUp
<1>3. \A q \in cloud : IsUp(q) => q \in cloud' /\ IsUp(q)'
  BY <1>2 DEF IsUp
<1>4. \A k \in {"tg", "rule"} : \A i : Exists(k, i)' <=> Exists(k, i)
  BY <1>2 DEF Exists
<1>5. LeadCall(p, c)
  BY <1>1 DEF Led
<1>6. LeadCall(p, c)'
  <2>1. c.op = "provision" => LeadProvision(p, c)'
    <3>1. SUFFICES ASSUME LeadProvision(p, c) PROVE LeadProvision(p, c)'
      BY <1>5 DEF LeadCall
    <3>2. Onward(p, c)' /\ Backward(c)'
      BY <1>2, <1>3, <1>4, <3>1 DEF LeadProvision, Onward, HasTask, HasAddress, Backward
    <3>3. \A r \in cloud' : r.kind = "rule" => r \in cloud
      BY <1>2
    <3>. QED  BY <1>2, <3>1, <3>2, <3>3, LeadSame
  <2>2. c.op = "teardown" /\ c.at > 3 => Unled(c.refs["task"])'
    BY <1>2, <1>5 DEF LeadCall, Unled
  <2>. QED  BY <2>1, <2>2 DEF LeadCall
<1>7. \A i \in halted' : i <= born'
  BY <1>2 DEF Led
<1>8. c = call'[p]
  BY <1>1, <1>2
<1>9. \A x \in targets', q \in cloud : IsUp(q) /\ q.id = holder[x[2]] => q \in cloud' /\ IsUp(q)'
  BY <1>3
<1>10. \A x \in targets', q \in cloud : q.kind = "tg" /\ q.id = x[1] => q \in cloud'
  BY <1>2
<1>. QED  BY <1>2, <1>6, <1>7, <1>8, <1>9, <1>10, LedStays

\* What a provision stores leads where its task is registered.
LEMMA SaveLed ==
    ASSUME Kept, Led, NEW p, Procs = {p}, mode = "alb", Save(p)
    PROVE  Led'
<1>0. p \in Procs
  OBVIOUS
<1>1. PICK c : c = call[p]
  OBVIOUS
<1>2. PICK w : w = ToWrite(c)
  OBVIOUS
<1>3. c.op # "idle" /\ c.phase = "save" /\ UNCHANGED <<cloud, halted, targets, born, holder>>
  BY <1>1 DEF Save, network
<1>4. c.seen = store /\ c.tenant \in Tenants /\ Good(c) /\ c.op \in {"provision", "teardown"}
  BY <1>0, <1>1, <1>3, HeldIs DEF Good, GoodRead, GoodUpdate
<1>5. store' = [store EXCEPT ![c.tenant] = w] /\ Quit(p)
  BY <1>1, <1>2, <1>4 DEF Save, Writes, FileWrite, RowWrite
<1>6. PICK d : d = call'[p]
  OBVIOUS
<1>7. d.op = "idle" /\ UNCHANGED mode
  BY <1>0, <1>5, <1>6, QuitIs
<1>8. w # None => Leads(w.refs["task"], w.refs["tg"])
  <2>1. CASE c.op = "provision"
    <3>1. w.refs = c.refs
      BY <1>0, <1>1, <1>2, <2>1, WritesAll
    <3>. QED  BY <1>0, <1>1, <2>1, <3>1 DEF Led, LeadCall, LeadProvision
  <2>2. CASE c.op = "teardown"
    BY <1>2, <2>2 DEF ToWrite
  <2>. QED  BY <1>4, <2>1, <2>2
<1>9. \A t \in Tenants : store'[t] = store[t] \/ store'[t] = w
  BY <1>4, <1>5 DEF Kept, TypeOK
<1>10. \A t \in Tenants : store'[t] # None => Leads(store'[t].refs["task"], store'[t].refs["tg"])
  BY <1>8, <1>9 DEF Led, RecordsLead
<1>11. RecordsLead'
  BY <1>3, <1>10 DEF RecordsLead, Leads
<1>12. TargetsLive'
  BY <1>3 DEF Led, TargetsLive, IsUp, Has
<1>13. LeadCall(p, d)' /\ \A i \in halted' : i <= born'
  BY <1>3, <1>7 DEF LeadCall, Led
<1>. QED  BY <1>6, <1>11, <1>12, <1>13 DEF Led

-----------------------------------------------------------------------------
(* All of it together. *)

LEMMA InitLed ==
    ASSUME Init
    PROVE  Led
<1>1. targets = {} /\ halted = {} /\ \A t \in Tenants : store[t] = None
  BY DEF Init
<1>2. \A p \in Procs : call[p].op = "idle"
  <2>1. PICK t \in Tenants : t = CHOOSE u \in Tenants : TRUE
    BY ProvisionerAssumption
  <2>. QED  BY <2>1, NoCallFields DEF Init
<1>. QED  BY <1>1, <1>2 DEF Led, TargetsLive, RecordsLead, LeadCall

\* Nothing but a failed rollback of the wiring, or a task that exits, leaves an
\* address behind that somebody else may get.
LEMMA StepLed ==
    ASSUME Kept, Led, OneByOne, "unwire" \notin Faults, "alb" \notin Mortal, [Next]_vars
    PROVE  Led'
<1>0. UNCHANGED mode
  <2>1. Next => UNCHANGED settings
    BY CallsStayTyped DEF CallsTyped, Kept, IInv
  <2>. QED  BY <2>1 DEF vars, settings
<1>1. PICK p : Procs = {p}
  BY DEF OneByOne, OneAtATime
<1>2. CASE mode # "alb"
  BY <1>0, <1>2 DEF Led
<1>3. CASE mode = "alb" /\ UNCHANGED vars
  BY <1>3 DEF vars, settings, world, network, Led, TargetsLive, RecordsLead, Leads, Unled, Has, Exists,
              IsUp, LeadCall, LeadProvision, Unnamed, OnlyRule, Onward, HasTask, HasAddress, Backward
<1>4. CASE mode = "alb" /\ Next
  <2>1. CASE TaskGone
    BY <1>1, <1>4, <2>1, TaskGoneLed
  <2>2. CASE BeginCall(p)
    BY <1>1, <1>4, <2>2, BeginCallLed
  <2>3. CASE Kill(p) \/ SaveFails(p) \/ DeleteFails(p) \/ Undone(p)
    BY <1>1, <1>4, <2>3, EndedLed
  <2>4. CASE WaitForHealthy(p) \/ ResolveTaskIp(p) \/ WaitTargetHealthy(p)
    BY <1>1, <1>4, <2>4, WaitedLed
  <2>5. CASE Create(p) \/ RegisterIp(p) \/ SgRulesFail(p) \/ Throws(p)
    BY <1>1, <1>4, <2>5, CreateLed, RegisterIpLed, SgRulesFailLed, ThrowsLed
  <2>6. CASE Undo(p) \/ UndoFails(p)
    BY <1>1, <1>4, <2>6, UndoLed, UndoFailsLed
  <2>7. CASE Load(p) \/ Provisioned(p) \/ TornDown(p)
    BY <1>1, <1>4, <2>7, TurnLed
  <2>8. CASE Delete(p) \/ Save(p)
    BY <1>1, <1>4, <2>8, DeleteLed, SaveLed
  <2>9. /\ ~DockerRunFails(p) /\ ~Swap(p) /\ ~SwapFails(p) /\ ~TaskExits
        /\ \A v : ~DockerControls(p, v)
    <3>1. call[p].op # "control" /\ call[p].op # "update"
      BY <1>1, <1>4, HeldIs DEF Good, GoodRead, GoodUpdate
    <3>. QED  BY <1>4, <3>1 DEF DockerRunFails, DockerControls, Swap, SwapFails, Updating, TaskExits, Goes
  <2>. QED  BY <1>1, <1>4, <2>1, <2>2, <2>3, <2>4, <2>5, <2>6, <2>7, <2>8, <2>9
            DEF Next, CallStep, ProvisionStep
<1>. QED  BY <1>2, <1>3, <1>4

\* An address that is registered is a running task's, of the group's tenant.
LEMMA LedHome ==
    ASSUME Kept, Led
    PROVE  HostLeadsHome
<1>1. SUFFICES ASSUME NEW r \in cloud, NEW q \in cloud, NEW a \in Addresses,
                      r.kind = "rule", q.kind = "task", <<r.refs["tg"], a>> \in targets,
                      holder[a] = q.id
               PROVE  q.tenant = r.tenant
  BY DEF HostLeadsHome
<1>2. mode = "alb"
  BY <1>1 DEF Kept, IInv, Types, World, KindsOfMode
<1>3. PICK z \in cloud : z.id = holder[a] /\ Has("tg", r.refs["tg"], z.tenant)
  BY <1>1, <1>2 DEF Led, TargetsLive
<1>4. z = q
  BY <1>1, <1>3 DEF Kept, World, OneId
<1>5. PICK g \in cloud : g.id = r.refs["tg"] /\ g.tenant = q.tenant
  BY <1>3, <1>4 DEF Has
<1>6. PICK h \in cloud : h.id = r.refs["tg"] /\ h.tenant = r.tenant
  BY <1>1 DEF Kept, World, RulesWired, Has
<1>. QED  BY <1>5, <1>6 DEF Kept, World, OneId

\* A host leads home, through every provision, rollback and teardown behind the
\* balancer with OneByOne, whatever else fails or is killed: the address in a
\* tenant's target group is no other tenant's, unless a rollback fails to remove
\* the wiring or a task exits by itself.
THEOREM HostsLeadHome ==
    OneByOne /\ "unwire" \notin Faults /\ "alb" \notin Mortal => (Spec => []HostLeadsHome)
<1>1. OneByOne /\ "unwire" \notin Faults /\ "alb" \notin Mortal /\ Kept /\ Led /\ [Next]_vars
         => Kept' /\ Led'
  BY StepKept, StepLed
<1>2. OneByOne /\ "unwire" \notin Faults /\ "alb" \notin Mortal
         => (OneByOne /\ "unwire" \notin Faults /\ "alb" \notin Mortal)'
  BY DEF OneByOne, OneAtATime, OwnNames, OwnPriorities
<1>. QED  BY <1>1, <1>2, InitKept, InitLed, LedHome, PTL DEF Spec
=============================================================================
