------------------------ MODULE TelegramGatewayProofs ------------------------
(***************************************************************************)
(* The gateway's safety for any number of chats, tenants, tokens, updates, *)
(* failed calls and exits.  The inductive invariant follows an update from *)
(* the batch through its handler, and a token from the file that the two   *)
(* processes overwrite to the link that it makes.                          *)
(***************************************************************************)
EXTENDS TelegramGateway, FiniteSetTheorems, TLAPS

Handling == phase \in Phases \ {"down", "poll", "batch"}

\* A mint under way has a tenant and a number left for its token.
MintInv ==
    /\ IsFiniteSet(minted)
    /\ minting # None => owner \in Tenants /\ Cardinality(minted) < MaxTokens

\* Whatever either process has read or written was minted; what consume has
\* read had not expired when it read it.
TokenInv ==
    /\ tokens \subseteq minted /\ seen \subseteq minted
    /\ minting # None => minting \subseteq minted
    /\ \A r \in seen : r.expiresAt > at

\* The loop goes through the updates in order, and none below the one in
\* hand is unhandled; the offset is never ahead of the loop.
LoopInv ==
    /\ next >= 1 /\ last <= Len(updates)
    /\ Handling => msg = next - 1 /\ msg \in 1 .. Len(updates)
                   /\ 1 .. (next - 2) \subseteq handled /\ offset <= next
    /\ phase = "batch" => 1 .. (next - 1) \subseteq handled /\ offset <= next
    /\ phase = "poll" => 1 .. (offset - 1) \subseteq handled

\* What the update in hand has led to so far: a token that names the tenant
\* to link, or a link that names the agent to ask.
HandInv ==
    /\ phase = "link" => \E r \in seen : /\ r.token = updates[msg].arg
                                         /\ r.tenant = tenant
    /\ phase \in {"resolve", "ask"} => /\ tenant # None
                                       /\ links[updates[msg].chat] = tenant

IInv == TypeOK /\ MintInv /\ TokenInv /\ LoopInv /\ NoUpdateSkipped /\ HandInv

-----------------------------------------------------------------------------
\* Initially there are no tokens and no updates.
LEMMA InitIInv == Init => IInv
<1> SUFFICES ASSUME Init PROVE IInv
  OBVIOUS
<1>1. TypeOK
  <2>1. updates \in Seq(Update) /\ links \in [Chats -> Tenants \cup {None}]
    BY DEF Init
  <2>2. apology \in BOOLEAN /\ phase \in Phases
    BY DEF Init, Phases
  <2>. QED  BY <2>1, <2>2 DEF Init, TypeOK
<1>2. MintInv
  BY FS_EmptySet DEF Init, MintInv
<1>3. TokenInv /\ HandInv /\ LoopInv /\ NoUpdateSkipped
  BY DEF Init, TokenInv, HandInv, LoopInv, NoUpdateSkipped, Handling
<1>. QED  BY <1>1, <1>2, <1>3 DEF IInv

\* Pruning keeps some of the tokens, those that have not expired.
LEMMA PruneKeeps ==
    ASSUME NEW data, NEW t
    PROVE  /\ Prune(data, t) \subseteq data
           /\ \A r \in Prune(data, t) : r.expiresAt > t
  BY DEF Prune

\* The offset that a poll confirms is above no unhandled update.
LEMMA ConfirmedHandled ==
    ASSUME IInv, phase = "poll", offset # 0
    PROVE  /\ Confirms \in Nat /\ offset - 1 <= Confirms
           /\ confirmed <= Confirms /\ 1 .. Confirms \subseteq handled
  BY DEF IInv, TypeOK, LoopInv, NoUpdateSkipped, Confirms, Greater

\* The batch that follows a poll begins right above what it confirmed, and
\* the offset of the poll is not above that.
LEMMA AboveOffset ==
    ASSUME NEW c \in Nat, NEW o \in Nat, o - 1 <= c
    PROVE  (c + 1) - 1 = c /\ o <= c + 1 /\ c + 1 >= 1
  OBVIOUS

\* The clock changes nothing that the invariant speaks about.
LEMMA TickIInv == IInv /\ Tick => IInv'
  BY DEF IInv, Tick, TypeOK, MintInv, TokenInv, LoopInv, NoUpdateSkipped, HandInv,
         Handling, web, telegram, hand, batch, history

\* A further update changes none of those that there are.
LEMMA SayIInv ==
    ASSUME IInv, NEW u \in Update, Say(u)
    PROVE  IInv'
<1> USE DEF IInv, Say, web, batch, hand, history
<1>1. /\ updates' \in Seq(Update) /\ Len(updates') = Len(updates) + 1
      /\ \A i \in 1 .. Len(updates) : updates'[i] = updates[i]
  BY DEF TypeOK
<1>2. TypeOK'
  BY <1>1 DEF TypeOK
<1>3. MintInv' /\ TokenInv' /\ NoUpdateSkipped'
  BY DEF MintInv, TokenInv, NoUpdateSkipped
<1>4. LoopInv'
  BY <1>1 DEF LoopInv, Handling, TypeOK
<1>5. HandInv'
  BY <1>1 DEF HandInv, LoopInv, Handling, Phases
<1>. QED  BY <1>2, <1>3, <1>4, <1>5

\* The web application's half of the token file.
LEMMA MintIInv ==
    ASSUME IInv, Web
    PROVE  IInv'
<1> USE DEF IInv, telegram, hand, batch, history
<1>1. ASSUME NEW t \in Tenants, MintRead(t) PROVE IInv'
  <2>1. minting' \subseteq tokens /\ owner' = t
    BY <1>1, PruneKeeps DEF MintRead
  <2>2. TypeOK'
    BY <1>1, <2>1 DEF MintRead, TypeOK
  <2>3. MintInv' /\ TokenInv'
    BY <1>1, <2>1 DEF MintRead, MintInv, TokenInv
  <2>4. LoopInv' /\ NoUpdateSkipped' /\ HandInv'
    BY <1>1 DEF MintRead, LoopInv, NoUpdateSkipped, HandInv, Handling
  <2>. QED  BY <2>2, <2>3, <2>4
<1>2. CASE MintWrite
  <2> DEFINE rec == [token |-> Cardinality(minted) + 1, tenant |-> owner,
                     expiresAt |-> now + Ttl]
  <2>1. /\ minting # None /\ tokens' = minting \cup {rec}
        /\ minted' = minted \cup {rec} /\ minting' = None /\ owner' = None
        /\ UNCHANGED <<now, links, telegram, phase, batch, hand, apology, history, faults>>
    BY <1>2 DEF MintWrite
  <2>2. Cardinality(minted) \in Nat /\ Cardinality(minted) < MaxTokens /\ owner \in Tenants
    BY <2>1, FS_CardinalityType DEF MintInv
  <2>3. rec \in ConnectTokenRecord
    BY <2>2, GatewayAssumption DEF TypeOK, ConnectTokenRecord, Tokens
  <2>4. minting \subseteq ConnectTokenRecord /\ minting \subseteq minted
    BY <2>1 DEF TypeOK, TokenInv
  <2>. HIDE DEF rec
  <2>5. TypeOK'
    BY <2>1, <2>3, <2>4 DEF TypeOK
  <2>6. MintInv'
    BY <2>1, FS_AddElement DEF MintInv
  <2>7. TokenInv'
    BY <2>1, <2>4 DEF TokenInv
  <2>8. LoopInv' /\ NoUpdateSkipped' /\ HandInv'
    BY <2>1 DEF LoopInv, NoUpdateSkipped, HandInv, Handling
  <2>. QED  BY <2>5, <2>6, <2>7, <2>8
<1>. QED  BY <1>1, <1>2 DEF Web

\* Polling, its failures and the exit of the process.
LEMMA PollIInv ==
    ASSUME IInv, Boot \/ GetUpdates \/ GetUpdatesFails \/ BatchDone \/ Crash
    PROVE  IInv'
<1> USE DEF IInv, web, telegram, hand, batch, history, Handling, Phases
<1>1. CASE Boot
  BY <1>1 DEF Boot, OffsetAtStart, TypeOK, MintInv, TokenInv, LoopInv,
              NoUpdateSkipped, HandInv
<1>2. CASE GetUpdates
  <2>1. /\ confirmed' \in Nat /\ offset - 1 <= confirmed'
        /\ 1 .. confirmed' \subseteq handled
    <3>1. CASE offset = 0
      <4>1. confirmed' = confirmed
        BY <1>2, <3>1 DEF GetUpdates
      <4>. QED  BY <3>1, <4>1 DEF TypeOK, NoUpdateSkipped
    <3>2. CASE offset # 0
      <4>1. confirmed' = Confirms /\ phase = "poll"
        BY <1>2, <3>2 DEF GetUpdates
      <4>. QED  BY <3>2, <4>1, ConfirmedHandled
    <3>. QED  BY <3>1, <3>2
  <2>2. TypeOK'
    BY <1>2, <2>1 DEF GetUpdates, TypeOK
  <2>3. MintInv' /\ TokenInv' /\ HandInv'
    BY <1>2 DEF GetUpdates, MintInv, TokenInv, HandInv
  <2>4. /\ phase' = "batch" /\ last' = Len(updates)
        /\ UNCHANGED <<updates, offset, handled>>
    BY <1>2 DEF GetUpdates
  <2>6. next' = confirmed' + 1
    BY <1>2 DEF GetUpdates
  <2>5. LoopInv' /\ NoUpdateSkipped'
    <3>0. offset \in Nat
      BY DEF TypeOK
    <3>1. next' - 1 = confirmed' /\ offset' <= next' /\ next' >= 1
      <4>1. /\ (confirmed' + 1) - 1 = confirmed' /\ offset <= confirmed' + 1
            /\ confirmed' + 1 >= 1
        BY <2>1, <3>0, AboveOffset, Zenon
      <4>. QED  BY <2>4, <2>6, <4>1, Zenon
    <3>2. Len(updates') \in Nat /\ last' <= Len(updates')
      BY <2>4 DEF TypeOK
    <3>. QED  BY <2>1, <2>4, <3>1, <3>2 DEF LoopInv, NoUpdateSkipped
  <2>. QED  BY <2>2, <2>3, <2>5
<1>3. CASE GetUpdatesFails
  <2>1. confirmed' \in Nat /\ 1 .. confirmed' \subseteq handled
    BY <1>3, ConfirmedHandled DEF GetUpdatesFails, TypeOK, NoUpdateSkipped
  <2>2. TypeOK'
    BY <1>3, <2>1 DEF GetUpdatesFails, TypeOK
  <2>3. MintInv' /\ TokenInv' /\ HandInv'
    BY <1>3 DEF GetUpdatesFails, MintInv, TokenInv, HandInv
  <2>4. LoopInv' /\ NoUpdateSkipped'
    BY <1>3, <2>1 DEF GetUpdatesFails, LoopInv, NoUpdateSkipped
  <2>. QED  BY <2>2, <2>3, <2>4
<1>4. CASE BatchDone
  BY <1>4 DEF BatchDone, TypeOK, MintInv, TokenInv, LoopInv, NoUpdateSkipped, HandInv
<1>5. CASE Crash
  <2>1. TypeOK'
    <3>1. apology' \in BOOLEAN
      BY <1>5 DEF Crash
    <3>2. faults' \in Nat /\ offset' \in Nat
      BY <1>5 DEF Crash, TypeOK
    <3>. QED  BY <1>5, <3>1, <3>2 DEF Crash, TypeOK
  <2>3. MintInv' /\ TokenInv' /\ HandInv'
    BY <1>5 DEF Crash, MintInv, TokenInv, HandInv
  <2>2. LoopInv' /\ NoUpdateSkipped'
    BY <1>5 DEF Crash, LoopInv, NoUpdateSkipped, TypeOK
  <2>. QED  BY <2>1, <2>2, <2>3
<1>. QED  BY <1>1, <1>2, <1>3, <1>4, <1>5

\* Taking an update in hand: the loop moves on before the handler runs.
LEMMA TakeIInv ==
    ASSUME IInv, Take
    PROVE  IInv'
<1> USE DEF IInv, web, telegram, hand, batch, history
<1> DEFINE u == updates[next]
<1>1. /\ phase = "batch" /\ next <= last /\ offset' = Greater(offset, next + 1)
      /\ msg' = next /\ next' = next + 1 /\ phase' = PhaseOf(u)
      /\ links' = IF u.kind = "disconnect" THEN [links EXCEPT ![u.chat] = None] ELSE links
      /\ tenant' = IF u.kind = "text" THEN Linked(u.chat) ELSE None
      /\ apology' = FALSE
      /\ handled' = IF u.kind = "other" THEN handled \cup {next} ELSE handled
      /\ UNCHANGED <<now, tokens, minted, web, telegram, last, seen, at, relays, faults>>
  BY DEF Take
<1>2. next \in 1 .. Len(updates) /\ u \in Update
  BY <1>1 DEF TypeOK, LoopInv
<1>3. /\ phase' \in {"batch", "consume", "resolve", "reply"}
      /\ phase' = "batch" <=> u.kind = "other"
      /\ phase' = "resolve" => u.kind = "text" /\ Linked(u.chat) # None
  BY <1>1, <1>2 DEF PhaseOf, Update
<1>4. offset' \in Nat /\ offset' <= next'
  BY <1>1, <1>2 DEF Greater, LoopInv, TypeOK
<1>5. u.chat \in Chats /\ links[u.chat] \in Tenants \cup {None}
  BY <1>2 DEF Update, TypeOK
<1>6. TypeOK'
  <2>1. links' \in [Chats -> Tenants \cup {None}] /\ tenant' \in Tenants \cup {None}
    BY <1>1, <1>5 DEF TypeOK, Linked
  <2>2. handled' \subseteq Nat /\ next' \in Nat /\ msg' \in Nat /\ phase' \in Phases
    BY <1>1, <1>2, <1>3 DEF TypeOK, Phases
  <2>. QED  BY <1>1, <1>4, <2>1, <2>2 DEF TypeOK
<1>7. MintInv' /\ TokenInv'
  BY <1>1 DEF MintInv, TokenInv
<1>8. LoopInv'
  <2>1. 1 .. (next - 1) \subseteq handled
    BY <1>1 DEF LoopInv
  <2>2. next' - 2 = next - 1 /\ next' - 1 = next /\ next' >= 1
    BY <1>1, <1>2
  <2>3. CASE u.kind = "other"
    BY <1>1, <1>2, <1>3, <1>4, <2>1, <2>2, <2>3 DEF LoopInv, Handling
  <2>4. CASE u.kind # "other"
    BY <1>1, <1>2, <1>3, <1>4, <2>1, <2>2, <2>4 DEF LoopInv, Handling
  <2>. QED  BY <2>3, <2>4
<1>9. NoUpdateSkipped'
  BY <1>1 DEF NoUpdateSkipped
<1>10. HandInv'
  BY <1>1, <1>3 DEF HandInv, Linked
<1>. QED  BY <1>6, <1>7, <1>8, <1>9, <1>10

\* The handlers, from the update in hand to its end.
LEMMA HandlerIInv ==
    ASSUME IInv,
           \/ ConsumeRead \/ ConsumeWrite \/ PutLink \/ ResolveAgent
           \/ AskAgent \/ SendMessage \/ SendMessageFails
    PROVE  IInv'
<1> USE DEF IInv, web, telegram, hand, batch, history, Handling, Phases
<1>1. CASE ConsumeRead
  <2>1. seen' \subseteq tokens /\ \A r \in seen' : r.expiresAt > at'
    BY <1>1, PruneKeeps DEF ConsumeRead
  <2>2. TypeOK' /\ MintInv' /\ TokenInv'
    BY <1>1, <2>1 DEF ConsumeRead, TypeOK, MintInv, TokenInv
  <2>3. LoopInv' /\ NoUpdateSkipped' /\ HandInv'
    BY <1>1 DEF ConsumeRead, LoopInv, NoUpdateSkipped, HandInv
  <2>. QED  BY <2>2, <2>3
<1>2. CASE ConsumeWrite
  <2>1. Consumed \subseteq seen /\ \A r \in Consumed : r.token = updates[msg].arg
    BY DEF Consumed
  <2>2. TypeOK'
    BY <1>2, <2>1 DEF ConsumeWrite, TypeOK, ConnectTokenRecord
  <2>3. MintInv' /\ TokenInv'
    BY <1>2 DEF ConsumeWrite, MintInv, TokenInv
  <2>4. LoopInv' /\ NoUpdateSkipped'
    BY <1>2 DEF ConsumeWrite, LoopInv, NoUpdateSkipped
  <2>5. HandInv'
    BY <1>2, <2>1 DEF ConsumeWrite, HandInv
  <2>. QED  BY <2>2, <2>3, <2>4, <2>5
<1>3. CASE PutLink
  <2>1. TypeOK'
    BY <1>3 DEF PutLink, TypeOK
  <2>2. MintInv' /\ TokenInv' /\ LoopInv' /\ NoUpdateSkipped' /\ HandInv'
    BY <1>3 DEF PutLink, MintInv, TokenInv, LoopInv, NoUpdateSkipped, HandInv
  <2>. QED  BY <2>1, <2>2
<1>4. CASE ResolveAgent
  <2>1. phase = "resolve" /\ phase' \in {"ask", "reply"}
        /\ UNCHANGED <<now, tokens, minted, web, links, telegram, batch, hand, apology, history, faults>>
    BY <1>4 DEF ResolveAgent
  <2>2. TypeOK' /\ MintInv' /\ TokenInv'
    BY <2>1 DEF TypeOK, MintInv, TokenInv
  <2>3. LoopInv' /\ NoUpdateSkipped' /\ HandInv'
    BY <2>1 DEF LoopInv, NoUpdateSkipped, HandInv
  <2>. QED  BY <2>2, <2>3
<1>5. CASE AskAgent
  <2>1. TypeOK'
    <3>1. msg \in Nat /\ tenant \in Tenants \cup {None}
      BY DEF TypeOK
    <3>2. relays' \subseteq Nat \X (Tenants \cup {None})
      BY <1>5, <3>1 DEF AskAgent, TypeOK
    <3>3. apology' \in BOOLEAN
      BY <1>5, Zenon DEF AskAgent, TypeOK
    <3>4. faults' \in Nat
      BY <1>5 DEF AskAgent, TypeOK
    <3>. QED  BY <1>5, <3>2, <3>3, <3>4 DEF AskAgent, TypeOK
  <2>2. MintInv' /\ TokenInv' /\ LoopInv' /\ NoUpdateSkipped' /\ HandInv'
    BY <1>5 DEF AskAgent, MintInv, TokenInv, LoopInv, NoUpdateSkipped, HandInv
  <2>. QED  BY <2>1, <2>2
<1>6. CASE SendMessage
  <2>1. TypeOK'
    BY <1>6 DEF SendMessage, HandlerEnds, TypeOK
  <2>2. MintInv' /\ TokenInv' /\ NoUpdateSkipped' /\ HandInv'
    BY <1>6 DEF SendMessage, HandlerEnds, MintInv, TokenInv, NoUpdateSkipped, HandInv
  <2>3. LoopInv'
    BY <1>6 DEF SendMessage, HandlerEnds, LoopInv, TypeOK
  <2>. QED  BY <2>1, <2>2, <2>3
<1>7. CASE SendMessageFails
  <2>1. TypeOK'
    <3>1. apology' \in BOOLEAN
      BY <1>7, Zenon DEF SendMessageFails, TypeOK
    <3>3. faults' \in Nat
      BY <1>7 DEF SendMessageFails, TypeOK
    <3>2. phase' \in Phases /\ handled' \subseteq Nat
      BY <1>7 DEF SendMessageFails, HandlerEnds, TypeOK
    <3>. QED  BY <1>7, <3>1, <3>2, <3>3 DEF SendMessageFails, TypeOK
  <2>2. MintInv' /\ TokenInv' /\ NoUpdateSkipped' /\ HandInv'
    BY <1>7 DEF SendMessageFails, HandlerEnds, MintInv, TokenInv, NoUpdateSkipped, HandInv
  <2>3. LoopInv'
    BY <1>7 DEF SendMessageFails, HandlerEnds, LoopInv, TypeOK
  <2>. QED  BY <2>1, <2>2, <2>3
<1>. QED  BY <1>1, <1>2, <1>3, <1>4, <1>5, <1>6, <1>7

\* Every step keeps the invariant.
LEMMA NextIInv == IInv /\ [Next]_vars => IInv'
<1> SUFFICES ASSUME IInv, [Next]_vars PROVE IInv'
  OBVIOUS
<1>1. ASSUME Users PROVE IInv'
  <2>1. ASSUME NEW c \in Chats, NEW k \in {"disconnect", "info", "text", "other"},
               Say([chat |-> c, kind |-> k, arg |-> None])
        PROVE  IInv'
    <3>1. [chat |-> c, kind |-> k, arg |-> None] \in Update
      BY DEF Update
    <3>. QED  BY <2>1, <3>1, SayIInv
  <2>2. ASSUME NEW c \in Chats, NEW a \in {r.token : r \in minted} \cup {None},
               Say([chat |-> c, kind |-> "start", arg |-> a])
        PROVE  IInv'
    <3>1. a \in Tokens \cup {None}
      BY DEF IInv, TypeOK, ConnectTokenRecord
    <3>2. [chat |-> c, kind |-> "start", arg |-> a] \in Update
      BY <3>1 DEF Update
    <3>. QED  BY <2>2, <3>2, SayIInv
  <2>. QED  BY <1>1, <2>1, <2>2 DEF Users
<1>2. CASE UNCHANGED vars
  BY <1>2 DEF vars, IInv, TypeOK, MintInv, TokenInv, LoopInv, NoUpdateSkipped,
              HandInv, Handling, web, telegram, hand, batch, history
<1>. QED
  BY <1>1, <1>2, TickIInv, MintIInv, PollIInv, TakeIInv, HandlerIInv
     DEF Next, Gateway, Failure

-----------------------------------------------------------------------------
\* The inductive invariant of the gateway holds for every value of the
\* constants.
THEOREM Invariance == Spec => []IInv
  BY InitIInv, NextIInv, PTL DEF Spec

\* The gateway's and the web application's variables keep their types.
THEOREM TypeCorrect == Spec => []TypeOK
<1>1. IInv => TypeOK
  BY DEF IInv
<1>. QED  BY Invariance, <1>1, PTL

\* However often calls fail and the process exits, Telegram is never told to
\* forget an update whose handler has not come to its end (gateway.ts).
THEOREM NothingSkipped == Spec => []NoUpdateSkipped
<1>1. IInv => NoUpdateSkipped
  BY DEF IInv
<1>. QED  BY Invariance, <1>1, PTL

\* A chat is linked only by a fresh token of that tenant which it presented,
\* although two processes overwrite each other's token file.
THEOREM LinksAreProven == Spec => LinkedByValidToken
<1>1. ASSUME IInv, [Next]_vars, NEW c \in Chats, links'[c] \notin {links[c], None}
      PROVE  \E r \in minted : /\ r.tenant = links'[c] /\ r.expiresAt > at
                               /\ updates[msg].chat = c /\ updates[msg].arg = r.token
  <2>1. CASE PutLink
    <3>1. PICK r \in seen : r.token = updates[msg].arg /\ r.tenant = tenant
      BY <2>1, <1>1 DEF PutLink, IInv, HandInv
    <3>2. updates[msg].chat = c /\ links'[c] = tenant
      BY <2>1, <1>1 DEF PutLink, IInv, TypeOK
    <3>. QED  BY <3>1, <3>2, <1>1 DEF IInv, TokenInv
  <2>2. CASE Take
    BY <2>2, <1>1 DEF Take, IInv, TypeOK
  <2>3. ~PutLink /\ ~Take => links' = links
    BY <1>1 DEF Next, Tick, Users, Say, Web, MintRead, MintWrite, Gateway, Failure,
                Boot, GetUpdates, GetUpdatesFails, BatchDone, ConsumeRead,
                ConsumeWrite, ResolveAgent, AskAgent, SendMessage,
                SendMessageFails, Crash, vars
  <2>. QED  BY <2>1, <2>2, <2>3, <1>1
<1>2. IInv /\ [Next]_vars =>
        [\A c \in Chats : links'[c] \notin {links[c], None} =>
           \E r \in minted : /\ r.tenant = links'[c] /\ r.expiresAt > at
                             /\ updates[msg].chat = c /\ updates[msg].arg = r.token]_vars
  BY <1>1
<1>. QED  BY Invariance, <1>2, PTL DEF Spec, LinkedByValidToken

\* No message reaches an agent that its chat is not linked to at that moment.
THEOREM RelaysAreLinked == Spec => RelayIsLinked
<1>1. ASSUME IInv, [Next]_vars, NEW x \in relays' \ relays
      PROVE  x[2] # None /\ links[updates[x[1]].chat] = x[2]
  <2>1. CASE AskAgent
    BY <2>1, <1>1 DEF AskAgent, IInv, HandInv
  <2>2. ~AskAgent => relays' = relays
    BY <1>1 DEF Next, Tick, Users, Say, Web, MintRead, MintWrite, Gateway, Failure,
                Boot, GetUpdates, GetUpdatesFails, BatchDone, Take, ConsumeRead,
                ConsumeWrite, PutLink, ResolveAgent, SendMessage,
                SendMessageFails, Crash, vars, history, HandlerEnds
  <2>. QED  BY <2>1, <2>2, <1>1
<1>2. IInv /\ [Next]_vars =>
        [\A x \in relays' \ relays : x[2] # None /\ links[updates[x[1]].chat] = x[2]]_vars
  BY <1>1
<1>. QED  BY Invariance, <1>2, PTL DEF Spec, RelayIsLinked
=============================================================================
