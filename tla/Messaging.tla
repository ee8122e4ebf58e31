------------------------------ MODULE Messaging ------------------------------
(***************************************************************************)
(* The RabbitMQ client that the services may share, and a consumer of one  *)
(* durable queue: the pools of the client, publish, start_consuming,       *)
(* stop_consuming and _handle_message.                                     *)
(*                                                                         *)
(* The broker is taken at its word: a message that no channel settled is   *)
(* ready again when the channel is gone, a queue counts deliveries in      *)
(* x-delivery-count only if it is a quorum queue, and a message that no    *)
(* binding takes is discarded.  Leaving the iterator of a queue gives back *)
(* the messages it had prefetched, but not the one it yielded.             *)
(***************************************************************************)
EXTENDS Integers, FiniteSets

CONSTANTS
    Letters,          \* the messages published
    NoLetter,         \* none of them
    Readers,          \* the consumers of the queue, which share a client
    Scenes,           \* which messages are published, and which consumers used
    ChannelPoolSize,  \* channel_pool_size
    Prefetch,         \* prefetch_count
    MaxRetries,       \* max_retries of a consumer
    MaxTroubles       \* bound on lost connections and closed pools

ASSUME MessagingAssumption ==
    /\ Scenes \subseteq [letters : SUBSET Letters, readers : SUBSET Readers]
    /\ NoLetter \notin Letters /\ IsFiniteSet(Letters) /\ IsFiniteSet(Readers)
    /\ MaxRetries \in Nat /\ MaxTroubles \in Nat
    /\ Prefetch \in Nat \ {0} /\ ChannelPoolSize \in Nat \ {0}

VARIABLES
    quorum,       \* whether the queue counts deliveries
    pooled,       \* whether the client has its pools: connect() was called
    bound,        \* whether the queue and its bindings exist
    letter,       \* where each message is
    returns,      \* its x-delivery-count: how often it was put back
    successes,    \* how often process_message returned for it
    reader,       \* what each consumer does
    consuming,    \* _consuming
    fetched,      \* the messages delivered to a consumer and not settled
    hand,         \* the message that it handles
    channel,      \* whether its channel is the one that delivered this message
    troubles      \* how often channels went away, up to MaxTroubles

messagingVars == <<quorum, pooled, bound, letter, returns, successes, reader,
                   consuming, fetched, hand, channel, troubles>>
queueVars == <<quorum, pooled, bound>>

Busy == {"handling", "succeeded", "failed"}

\* A client, a queue that is not there yet, and those who will use them.
Opening(scene) ==
    /\ quorum \in BOOLEAN
    /\ pooled = FALSE /\ bound = FALSE
    /\ letter = [m \in Letters |-> IF m \in scene.letters THEN "unsent" ELSE "refused"]
    /\ reader = [c \in Readers |-> IF c \in scene.readers THEN "off" ELSE "over"]
    /\ returns = [m \in Letters |-> 0]
    /\ successes = [m \in Letters |-> 0]
    /\ consuming = [c \in Readers |-> FALSE]
    /\ fetched = [c \in Readers |-> {}]
    /\ hand = [c \in Readers |-> NoLetter]
    /\ channel = [c \in Readers |-> "open"]
    /\ troubles = 0

MessagingInit == \E scene \in Scenes : Opening(scene)

\* The pool has a channel to give: a consumer keeps one as long as it runs, and
\* a publication as long as it takes.
Sending == {m \in Letters : letter[m] = "sending"}
Running == {c \in Readers : reader[c] \notin {"off", "over"} /\ channel[c] # "closed"}
ChannelFree == pooled /\ Cardinality(Sending) + Cardinality(Running) < ChannelPoolSize

\* Messages that the broker puts back into the queue.
Back(ms) == letter' = [m \in Letters |-> IF m \in ms THEN "ready" ELSE letter[m]]
Counted(ms) == returns' = [m \in Letters |-> IF quorum /\ m \in ms THEN returns[m] + 1 ELSE returns[m]]

\* connect.
OpenPools ==
    /\ ~pooled /\ pooled' = TRUE
    /\ UNCHANGED <<quorum, bound, letter, returns, successes, reader, consuming,
                   fetched, hand, channel, troubles>>

\* publish gets a channel of the pool, or waits for one.
BeginPublish(m) ==
    /\ letter[m] = "unsent" /\ ChannelFree
    /\ letter' = [letter EXCEPT ![m] = "sending"]
    /\ UNCHANGED <<queueVars, returns, successes, reader, consuming, fetched, hand, channel, troubles>>

\* The exchange is declared and the broker confirms the message, wherever it goes;
\* or the publication raises.
EndPublish(m) ==
    /\ letter[m] = "sending"
    /\ \E where \in {IF bound THEN "ready" ELSE "unrouted", "refused"} : letter' = [letter EXCEPT ![m] = where]
    /\ UNCHANGED <<queueVars, returns, successes, reader, consuming, fetched, hand, channel, troubles>>

\* start_consuming up to its loop: the queue is declared and bound.  Who starts
\* again after the loop is another consumer.
StartConsuming(c) ==
    /\ reader[c] = "off" /\ ChannelFree
    /\ consuming' = [consuming EXCEPT ![c] = TRUE]
    /\ reader' = [reader EXCEPT ![c] = "waiting"]
    /\ bound' = TRUE
    /\ UNCHANGED <<quorum, pooled, letter, returns, successes, fetched, hand, channel, troubles>>

\* stop_consuming, which nobody hears before the next message.
StopConsuming(c) ==
    /\ consuming[c]
    /\ consuming' = [consuming EXCEPT ![c] = FALSE]
    /\ UNCHANGED <<queueVars, letter, returns, successes, reader, fetched, hand, channel, troubles>>

\* The broker delivers as many messages as the channel may hold.
Prefetched(c, m) ==
    /\ c \in Running /\ letter[m] = "ready" /\ Cardinality(fetched[c]) < Prefetch
    /\ letter' = [letter EXCEPT ![m] = "fetched"]
    /\ fetched' = [fetched EXCEPT ![c] = @ \union {m}]
    /\ UNCHANGED <<queueVars, returns, successes, reader, consuming, hand, channel, troubles>>

\* A consumer leaves its loop and gives its channel back: what it had prefetched
\* is returned, the message m that it was about to handle stays with the channel.
LeaveLoop(c, m) ==
    LET given == fetched[c] \ {m} IN
    /\ reader' = [reader EXCEPT ![c] = "over"]
    /\ letter' = [n \in Letters |-> IF n = m THEN "stranded" ELSE IF n \in given THEN "ready" ELSE letter[n]]
    /\ Counted(given)
    /\ fetched' = [fetched EXCEPT ![c] = {}]
    /\ hand' = [hand EXCEPT ![c] = NoLetter]
    /\ channel' = [channel EXCEPT ![c] = "open"]

\* Mutant of TakeNext: the flag is not looked at, and a message is taken that
\* another consumer has as well.
TakeNext_Shared(c) ==
    /\ reader[c] = "waiting"
    /\ \E m \in UNION {fetched[b] : b \in Readers} :
          /\ hand' = [hand EXCEPT ![c] = m]
          /\ reader' = [reader EXCEPT ![c] = "handling"]
    /\ UNCHANGED <<queueVars, letter, returns, successes, consuming, fetched, channel, troubles>>

\* A turn of the loop of start_consuming.
TakeNext(c) ==
    /\ reader[c] = "waiting"
    /\ \E m \in fetched[c] :
          \/ /\ consuming[c]
             /\ hand' = [hand EXCEPT ![c] = m]
             /\ reader' = [reader EXCEPT ![c] = "handling"]
             /\ UNCHANGED <<letter, returns, fetched, channel>>
          \/ ~consuming[c] /\ LeaveLoop(c, m)
    /\ UNCHANGED <<queueVars, successes, consuming, troubles>>

\* The body is deserialised and process_message called: either may raise.
ProcessMessage(c) ==
    /\ reader[c] = "handling"
    /\ \/ /\ reader' = [reader EXCEPT ![c] = "succeeded"]
          /\ successes' = [successes EXCEPT ![hand[c]] = @ + 1]
       \/ reader' = [reader EXCEPT ![c] = "failed"] /\ UNCHANGED successes
    /\ UNCHANGED <<queueVars, letter, returns, consuming, fetched, hand, channel, troubles>>

\* The channel of the message settles it, and the loop goes on.
Settles(c, where) ==
    /\ letter' = [letter EXCEPT ![hand[c]] = where]
    /\ fetched' = [fetched EXCEPT ![c] = @ \ {hand[c]}]
    /\ reader' = [reader EXCEPT ![c] = "waiting"]
    /\ hand' = [hand EXCEPT ![c] = NoLetter]

\* A channel that took the place of another ignores what is said of its messages.
Ignores(c) ==
    /\ channel[c] = "replaced"
    /\ reader' = [reader EXCEPT ![c] = "waiting"]
    /\ hand' = [hand EXCEPT ![c] = NoLetter]
    /\ channel' = [channel EXCEPT ![c] = "open"]
    /\ UNCHANGED <<letter, returns, fetched>>

\* ack after process_message returned; without its channel it has no effect, or
\* it raises and the message is rejected instead.
AckMessage(c) ==
    /\ reader[c] = "succeeded"
    /\ \/ channel[c] = "open" /\ Settles(c, "acked") /\ UNCHANGED <<returns, channel>>
       \/ Ignores(c)
       \/ /\ channel[c] # "open" /\ reader' = [reader EXCEPT ![c] = "failed"]
          /\ UNCHANGED <<letter, returns, fetched, hand, channel>>
    /\ UNCHANGED <<queueVars, successes, consuming, troubles>>

\* x-delivery-count of the message, against max_retries.
ShouldRequeue(m) == returns[m] < MaxRetries

\* nack(requeue = should_requeue): what is not put back goes to the dead-letter
\* exchange of the queue, or nowhere when it has none. Without its channel it has no effect, or it
\* raises out of start_consuming.
NackMessage(c) ==
    /\ reader[c] = "failed"
    /\ \/ /\ channel[c] = "open"
          /\ \/ ShouldRequeue(hand[c]) /\ Settles(c, "ready") /\ Counted({hand[c]})
             \/ ~ShouldRequeue(hand[c]) /\ Settles(c, "rejected") /\ UNCHANGED returns
          /\ UNCHANGED channel
       \/ Ignores(c)
       \/ channel[c] # "open" /\ LeaveLoop(c, NoLetter)
    /\ UNCHANGED <<queueVars, successes, consuming, troubles>>

\* A connection is lost, and with it the channels of some consumers and of some
\* messages that were left behind; the consumers are given new channels.
LoseChannels ==
    \E cs \in SUBSET Running, ms \in SUBSET {m \in Letters : letter[m] = "stranded"} :
        LET gone == ms \union UNION {fetched[c] : c \in cs} IN
        /\ troubles < MaxTroubles /\ troubles' = troubles + 1
        /\ Back(gone) /\ Counted(gone)
        /\ fetched' = [c \in Readers |-> IF c \in cs THEN {} ELSE fetched[c]]
        /\ channel' = [c \in Readers |-> IF c \in cs /\ reader[c] \in Busy THEN "replaced" ELSE channel[c]]
        /\ UNCHANGED <<queueVars, successes, reader, consuming, hand>>

\* close: every channel is gone. A consumer that waits for a message is done, one
\* that handles a message finds out afterwards.
ClosePools ==
    LET gone == {m \in Letters : letter[m] \in {"fetched", "stranded"}} IN
    /\ pooled /\ troubles < MaxTroubles
    /\ pooled' = FALSE /\ troubles' = troubles + 1
    /\ letter' = [m \in Letters |-> IF m \in gone THEN "ready" ELSE IF letter[m] = "sending" THEN "refused" ELSE letter[m]]
    /\ Counted(gone)
    /\ fetched' = [c \in Readers |-> {}]
    /\ reader' = [c \in Readers |-> IF reader[c] = "waiting" THEN "over" ELSE reader[c]]
    /\ channel' = [c \in Readers |-> IF reader[c] \in Busy THEN "closed" ELSE "open"]
    /\ UNCHANGED <<quorum, bound, successes, consuming, hand>>

---------------------------------------------------------------------------
Reading(c) == (\E m \in Letters : Prefetched(c, m)) \/ TakeNext(c) \/ ProcessMessage(c)
              \/ AckMessage(c) \/ NackMessage(c)

MessagingNext ==
    \/ OpenPools \/ ClosePools \/ LoseChannels
    \/ \E m \in Letters : BeginPublish(m) \/ EndPublish(m)
    \/ \E c \in Readers : StartConsuming(c) \/ StopConsuming(c) \/ Reading(c)

MessagingTypeOK ==
    /\ quorum \in BOOLEAN /\ pooled \in BOOLEAN /\ bound \in BOOLEAN
    /\ letter \in [Letters -> {"unsent", "sending", "unrouted", "refused", "ready", "fetched",
                               "stranded", "acked", "rejected"}]
    /\ returns \in [Letters -> Nat] /\ successes \in [Letters -> Nat]
    /\ reader \in [Readers -> {"off", "waiting", "over"} \union Busy]
    /\ consuming \in [Readers -> BOOLEAN]
    /\ fetched \in [Readers -> SUBSET Letters]
    /\ hand \in [Readers -> Letters \union {NoLetter}]
    /\ channel \in [Readers -> {"open", "replaced", "closed"}]
    /\ troubles \in 0..MaxTroubles

\* A message leaves the queue for good only when it was processed, or was put back
\* max_retries times; no two consumers process it while both have the channel that
\* delivered it; and what was fetched is with the consumer that holds it.
LettersAreKept ==
    /\ \A m \in Letters :
        /\ letter[m] = "acked" => successes[m] > 0
        /\ letter[m] = "rejected" => returns[m] >= MaxRetries
        /\ letter[m] = "fetched" <=> \E c \in Running : m \in fetched[c]
    /\ \A b, c \in Readers :
        b # c /\ hand[b] # NoLetter /\ channel[b] = "open" /\ channel[c] = "open" => hand[b] # hand[c]

\* Only a lost channel makes a message be processed again after it was: at least
\* once, and at most once more for each time that channels went away.
HandledAgainAfterTrouble == \A m \in Letters : successes[m] <= 1 + troubles

\* On a queue that counts deliveries every message that waits is processed or
\* rejected in the end, as long as a consumer runs, unless a consumer that was
\* stopped took it along.
LettersAreSettled ==
    \A m \in Letters :
        quorum /\ letter[m] \in {"ready", "fetched"}
            ~> letter[m] \in {"acked", "rejected", "stranded"} \/ Running = {}
=============================================================================
