-------------------------------- MODULE Outbox --------------------------------
(***************************************************************************)
(* What the event queue promises to those who append to it: events are      *)
(* accepted under growing numbers, sent in that order at least once each,   *)
(* and leave only when they were sent, when the receiver refused them, or,  *)
(* oldest first, to make room.  Batches, transactions, drainers, the        *)
(* bisection of a rejected request, and crashes are not seen here.          *)
(***************************************************************************)
EXTENDS Integers

CONSTANTS
    Withheld,   \* IDs of events that are accepted but never sent
    Replaced    \* IDs of which a newer event replaces an older one

VARIABLES
    queue,      \* number -> event accepted and not yet gone
    last,       \* the last number given
    sent,       \* <<number, ID>> of the events the receiver has
    rejected,   \* <<number, ID>> of events it rejected, still to be dealt with
    refused     \* IDs of the events that are refused for good

outboxVars == <<queue, last, sent, rejected, refused>>

Init ==
    /\ DOMAIN queue = 1 .. last
    /\ sent = {} /\ rejected = {} /\ refused = {}

Gone == DOMAIN queue \ DOMAIN queue'

KeepsTheRest == \A s \in DOMAIN queue \cap DOMAIN queue' : queue'[s] = queue[s]

Done(s) == queue[s].id \in Withheld \/ <<s, queue[s].id>> \in sent

(* Every event before s was dealt with. *)
IsTurnOf(s) == \A t \in DOMAIN queue : t < s => Done(t)

(* s goes before every event that stays: by age, then by number. *)
IsOldest(s) ==
    \A t \in DOMAIN queue' :
        \/ queue[s].created < queue'[t].created
        \/ queue[s].created = queue'[t].created /\ s < t

(* New events are accepted together.  They may replace some, and the oldest *)
(* may have to go, the new ones among them.                                *)
Accept ==
    /\ last' >= last
    /\ \A s \in DOMAIN queue' \ DOMAIN queue : s \in last + 1 .. last'
    /\ KeepsTheRest
    /\ \A s \in Gone : IsOldest(s) \/ (queue[s].id \in Replaced /\ last' > last)
    /\ UNCHANGED <<sent, rejected, refused>>

(* Events reach the receiver, none before those accepted before it.  One    *)
(* that had to go while it was on its way arrives all the same.            *)
Send ==
    /\ sent \subseteq sent'
    /\ \A e \in sent' \ sent :
        /\ e[1] <= last
        /\ \A t \in DOMAIN queue :
             t < e[1] => Done(t) \/ <<t, queue[t].id>> \in sent'
    /\ UNCHANGED <<queue, last, rejected, refused>>

Settle ==
    /\ DOMAIN queue' \subseteq DOMAIN queue /\ KeepsTheRest
    /\ \A s \in Gone : Done(s)
    /\ UNCHANGED <<last, sent, rejected, refused>>

(* The receiver rejects an event whose turn it is.  Whoever sent it may      *)
(* forget that, and will send it again.                                     *)
Reject(s, id) ==
    /\ s <= last /\ (s \in DOMAIN queue => queue[s].id = id)
    /\ IsTurnOf(s)
    /\ rejected' = rejected \cup {<<s, id>>}
    /\ UNCHANGED <<queue, last, sent, refused>>

Forget ==
    /\ rejected' \subseteq rejected
    /\ UNCHANGED <<queue, last, sent, refused>>

(* The ID of an event that was rejected is refused, and events with it go.  *)
Refuse(e) ==
    /\ refused' = refused \cup {e[2]}
    /\ DOMAIN queue' \subseteq DOMAIN queue /\ KeepsTheRest
    /\ \A s \in Gone : queue[s].id = e[2]
    /\ rejected' \subseteq rejected
    /\ UNCHANGED <<last, sent>>

Next ==
    \/ Accept \/ Send \/ Settle \/ Forget
    \/ \E e \in rejected' : Reject(e[1], e[2])
    \/ \E e \in rejected : Refuse(e)

Spec == Init /\ [][Next]_outboxVars
=============================================================================
