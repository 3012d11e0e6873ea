--------------------------- MODULE TelegramGateway ---------------------------
(***************************************************************************)
(* The Telegram gateway: one process that polls Telegram for updates,      *)
(* links a chat to a tenant's agent for whoever presents a connect token,  *)
(* and relays the chat's messages to that agent.  The web application      *)
(* mints the tokens in a process of its own; the two share a file that     *)
(* each reads whole and writes whole.  The offset lives in memory only.    *)
(***************************************************************************)
EXTENDS Naturals, Sequences, FiniteSets

CONSTANTS
    Chats,       \* the Telegram chats
    Tenants,     \* the tenants whose agents can be linked
    Ttl,         \* the life of a connect token
    MaxTime,     \* bound on the clock
    MaxTokens,   \* bound on tokens minted
    MaxUpdates,  \* bound on updates that users send
    MaxFaults,   \* bound on failed calls and exits of the gateway
    IsAws,       \* which resolver looks agents up
    None         \* no token, no tenant, no link

ASSUME GatewayAssumption ==
    /\ {Ttl, MaxTime, MaxTokens, MaxUpdates, MaxFaults} \subseteq Nat
    /\ IsAws \in BOOLEAN
    /\ None \notin Tenants /\ None \notin Nat

Tokens == 1 .. MaxTokens

ConnectTokenRecord == [token : Tokens, tenant : Tenants, expiresAt : Nat]

\* "info" stands for /help, /status and unknown commands, "other" for an
\* update without a text message.
Update == [chat : Chats, kind : {"start", "disconnect", "info", "text", "other"},
           arg : Tokens \cup {None}]

VARIABLES
    now,        \* the clock
    tokens,     \* the token file
    minted,     \* history: every token handed to a user
    minting,    \* the web process: what it read of the file, None outside mint
    owner,      \* the tenant that it mints for
    links,      \* the link file: chat to tenant
    updates,    \* what the users sent; the position is the update id
    confirmed,  \* Telegram forgets the updates up to this one
    phase,      \* where the gateway is
    offset,     \* the offset of its next getUpdates
    next, last, \* the updates of its batch that it has not taken yet
    msg,        \* the update in hand
    seen,       \* what consume read of the token file, pruned
    at,         \* the time of that read
    tenant,     \* the tenant that the token or the link gave
    apology,    \* a failing sendMessage is answered with another one
    handled,    \* history: updates whose handler has come to an end
    relays,     \* history: which agent got which update
    faults      \* failures so far

web      == <<minting, owner>>
telegram == <<updates, confirmed>>
hand     == <<seen, at, tenant>>
batch    == <<offset, next, last, msg>>
history  == <<handled, relays>>
vars == <<now, tokens, minted, web, links, telegram, phase, batch, hand, apology, history, faults>>

Phases == {"down", "poll", "batch", "consume", "burn", "link", "resolve", "ask", "reply"}

Init ==
    /\ now = 0 /\ tokens = {} /\ minted = {} /\ minting = None /\ owner = None
    /\ links = [c \in Chats |-> None]
    /\ updates = <<>> /\ confirmed = 0
    /\ phase = "down" /\ offset = 0 /\ next = 1 /\ last = 0 /\ msg = 0
    /\ seen = {} /\ at = 0 /\ tenant = None /\ apology = FALSE
    /\ handled = {} /\ relays = {} /\ faults = 0

-----------------------------------------------------------------------------
(* The world around the gateway. *)

Tick ==
    /\ now < MaxTime /\ now' = now + 1
    /\ UNCHANGED <<tokens, minted, web, links, telegram, phase, batch, hand, apology,
                   history, faults>>

Say(u) ==
    /\ Len(updates) < MaxUpdates
    /\ updates' = Append(updates, u)
    /\ UNCHANGED <<now, tokens, minted, web, links, confirmed, phase, batch, hand, apology,
                   history, faults>>

\* Mutant of Prune: an expired token waits for somebody to use it.
PruneNothing(data, t) == data

Prune(data, t) == {r \in data : r.expiresAt > t}

\* mint reads the file, and writes all of it back with its new token.
MintRead(t) ==
    /\ minting = None /\ Cardinality(minted) < MaxTokens
    /\ minting' = Prune(tokens, now) /\ owner' = t
    /\ UNCHANGED <<now, tokens, minted, links, telegram, phase, batch, hand, apology,
                   history, faults>>

MintWrite ==
    LET rec == [token |-> Cardinality(minted) + 1, tenant |-> owner, expiresAt |-> now + Ttl]
    IN /\ minting # None
       /\ tokens' = minting \cup {rec} /\ minted' = minted \cup {rec}
       /\ minting' = None /\ owner' = None
       /\ UNCHANGED <<now, links, telegram, phase, batch, hand, apology, history, faults>>

-----------------------------------------------------------------------------
(* Polling. *)

Greater(a, b) == IF a > b THEN a ELSE b

\* Mutant of OffsetAtStart: as if the offset were saved whenever it moves.
OffsetSaved(o) == o

\* The offset that a new process begins with.
OffsetAtStart(o) == 0

Boot ==
    /\ phase = "down" /\ phase' = "poll"
    /\ offset' = OffsetAtStart(offset)
    /\ UNCHANGED <<now, tokens, minted, web, links, telegram, next, last, msg, hand, apology,
                   history, faults>>

\* Mutant of Confirms: the poll confirms whatever it returns.
ConfirmsAll == Len(updates)

\* A call of getUpdates confirms what lies below its offset.
Confirms == Greater(confirmed, offset - 1)

GetUpdates ==
    /\ phase = "poll" /\ phase' = "batch"
    /\ confirmed' = IF offset = 0 THEN confirmed ELSE Confirms
    /\ next' = confirmed' + 1 /\ last' = Len(updates)
    /\ UNCHANGED <<now, tokens, minted, web, links, updates, offset, msg, hand, apology,
                   history, faults>>

\* The call fails on its way there or on its way back.
GetUpdatesFails ==
    /\ phase = "poll" /\ faults < MaxFaults /\ faults' = faults + 1
    /\ confirmed' \in {confirmed, IF offset = 0 THEN confirmed ELSE Confirms}
    /\ UNCHANGED <<now, tokens, minted, web, links, updates, phase, batch, hand, apology, history>>

BatchDone ==
    /\ phase = "batch" /\ next > last /\ phase' = "poll"
    /\ UNCHANGED <<now, tokens, minted, web, links, telegram, batch, hand, apology, history, faults>>

-----------------------------------------------------------------------------
(* handleUpdate: the loop moves the offset, then awaits the handler. *)

\* Mutant of Linked: somebody's link will do.
LinkedAny(c) == IF links[c] # None THEN links[c]
                ELSE IF \E x \in Chats : links[x] # None
                     THEN links[CHOOSE x \in Chats : links[x] # None] ELSE None

Linked(c) == links[c]

PhaseOf(u) ==
    CASE u.kind = "other" -> "batch"
      [] u.kind = "start" /\ u.arg # None -> "consume"
      [] u.kind = "text" /\ Linked(u.chat) # None -> "resolve"
      [] OTHER -> "reply"

Take ==
    LET u == updates[next]
    IN /\ phase = "batch" /\ next <= last
       /\ offset' = Greater(offset, next + 1)
       /\ msg' = next /\ next' = next + 1
       /\ phase' = PhaseOf(u)
       /\ links' = IF u.kind = "disconnect" THEN [links EXCEPT ![u.chat] = None] ELSE links
       /\ tenant' = IF u.kind = "text" THEN Linked(u.chat) ELSE None
       /\ apology' = FALSE
       /\ handled' = IF u.kind = "other" THEN handled \cup {next} ELSE handled
       /\ UNCHANGED <<now, tokens, minted, web, telegram, last, seen, at, relays, faults>>

\* consume: the file without what has expired, then without the token.
Consumed == {r \in seen : r.token = updates[msg].arg}

ConsumeRead ==
    /\ phase = "consume" /\ phase' = "burn"
    /\ seen' = Prune(tokens, now) /\ at' = now
    /\ UNCHANGED <<now, tokens, minted, web, links, telegram, batch, tenant, apology, history, faults>>

ConsumeWrite ==
    /\ phase = "burn"
    /\ tokens' = seen \ Consumed
    /\ \/ Consumed = {} /\ phase' = "reply" /\ tenant' = None
       \/ \E r \in Consumed : phase' = "link" /\ tenant' = r.tenant
    /\ UNCHANGED <<now, minted, web, links, telegram, batch, seen, at, apology, history, faults>>

PutLink ==
    /\ phase = "link" /\ phase' = "reply"
    /\ links' = [links EXCEPT ![updates[msg].chat] = tenant]
    /\ UNCHANGED <<now, tokens, minted, web, telegram, batch, hand, apology, history, faults>>

\* What the resolvers read of a tenant: its record and the agent's API key.
Record == [status : {"running", "other"}, apiPort : BOOLEAN, url : BOOLEAN,
           secretArn : BOOLEAN, apiKey : BOOLEAN]

LocalResolves(r) == r.apiPort /\ r.status = "running" /\ r.apiKey
AwsResolves(r)   == r.status = "running" /\ r.secretArn /\ r.url /\ r.apiKey

ResolveAgent ==
    /\ phase = "resolve"
    /\ \E r \in Record \cup {None} :
         phase' = IF r # None /\ (IF IsAws THEN AwsResolves(r) ELSE LocalResolves(r))
                  THEN "ask" ELSE "reply"
    /\ UNCHANGED <<now, tokens, minted, web, links, telegram, batch, hand, apology, history, faults>>

\* The agent has got the message, whether or not its answer comes back.
AskAgent ==
    /\ phase = "ask" /\ phase' = "reply"
    /\ relays' = relays \cup {<<msg, tenant>>}
    /\ \/ apology' = TRUE /\ UNCHANGED faults
       \/ apology' = FALSE /\ faults < MaxFaults /\ faults' = faults + 1
    /\ UNCHANGED <<now, tokens, minted, web, links, telegram, batch, hand, handled>>

HandlerEnds == phase' = "batch" /\ handled' = handled \cup {msg}

SendMessage ==
    /\ phase = "reply" /\ HandlerEnds
    /\ UNCHANGED <<now, tokens, minted, web, links, telegram, batch, hand, apology, relays, faults>>

\* In the try of askAgent a failure is answered with an apology, elsewhere the
\* handler throws and the loop goes on.
SendMessageFails ==
    /\ phase = "reply" /\ faults < MaxFaults /\ faults' = faults + 1
    /\ \/ apology /\ apology' = FALSE /\ UNCHANGED <<phase, handled>>
       \/ ~apology /\ HandlerEnds /\ UNCHANGED apology
    /\ UNCHANGED <<now, tokens, minted, web, links, telegram, batch, hand, relays>>

\* The process exits; what it had in memory is gone.
Crash ==
    /\ phase # "down" /\ phase' = "down" /\ faults < MaxFaults /\ faults' = faults + 1
    /\ next' = 1 /\ last' = 0 /\ msg' = 0 /\ seen' = {} /\ at' = 0 /\ tenant' = None
    /\ apology' = FALSE
    /\ UNCHANGED <<now, tokens, minted, web, links, telegram, offset, history>>

-----------------------------------------------------------------------------
\* Tokens are drawn at random: nobody presents one that he was not handed.
Users ==
    \E c \in Chats : \/ \E k \in {"disconnect", "info", "text", "other"} :
                           Say([chat |-> c, kind |-> k, arg |-> None])
                     \/ \E a \in {r.token : r \in minted} \cup {None} :
                           Say([chat |-> c, kind |-> "start", arg |-> a])

Web == MintWrite \/ \E t \in Tenants : MintRead(t)

Gateway ==
    \/ Boot \/ GetUpdates \/ BatchDone \/ Take
    \/ ConsumeRead \/ ConsumeWrite \/ PutLink
    \/ ResolveAgent \/ AskAgent \/ SendMessage

Failure == GetUpdatesFails \/ SendMessageFails \/ Crash

Next == Tick \/ Users \/ Web \/ Gateway \/ Failure

\* The loop never ends, its awaits come back (fetch gives up at last), and
\* the process is started again.
Spec == Init /\ [][Next]_vars /\ WF_vars(Gateway)

-----------------------------------------------------------------------------
TypeOK ==
    /\ now \in Nat /\ tokens \subseteq ConnectTokenRecord /\ minted \subseteq ConnectTokenRecord
    /\ minting \in (SUBSET ConnectTokenRecord) \cup {None} /\ owner \in Tenants \cup {None}
    /\ links \in [Chats -> Tenants \cup {None}]
    /\ updates \in Seq(Update) /\ confirmed \in Nat
    /\ phase \in Phases /\ offset \in Nat /\ next \in Nat /\ last \in Nat /\ msg \in Nat
    /\ seen \subseteq ConnectTokenRecord /\ at \in Nat /\ tenant \in Tenants \cup {None}
    /\ apology \in BOOLEAN
    /\ handled \subseteq Nat /\ relays \subseteq Nat \X (Tenants \cup {None})
    /\ faults \in Nat

\* An update that Telegram has been told to forget was handled to the end:
\* because the offset is lost with the process and told to Telegram only by
\* the next poll, an exit in the middle repeats updates and never skips one.
NoUpdateSkipped == 1 .. confirmed \subseteq handled

\* Whoever links a chat to a tenant's agent presented, in that chat, a token
\* that was minted for this tenant and had not expired when it was read,
\* whatever the two processes did to the file in between.
LinkedByValidToken ==
    [][\A c \in Chats : links'[c] \notin {links[c], None} =>
          \E r \in minted : /\ r.tenant = links'[c] /\ r.expiresAt > at
                            /\ updates[msg].chat = c /\ updates[msg].arg = r.token]_vars

\* An agent gets a message only of a chat that is linked to it at that moment:
\* no /disconnect is overtaken by a message that was waiting for the agent.
RelayIsLinked ==
    [][\A x \in relays' \ relays : x[2] # None /\ links[updates[x[1]].chat] = x[2]]_vars

\* Every update is handled in the end, however often the process exits and a
\* call fails.
UpdateHandled ==
    \A i \in 1 .. MaxUpdates : (i <= Len(updates)) ~> (i \in handled)
=============================================================================
