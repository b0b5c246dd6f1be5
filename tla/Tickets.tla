------------------------------ MODULE Tickets ------------------------------
(***************************************************************************)
(* WebSocket tickets: POST /ws/ticket trades a JWT for a short-lived token *)
(* (issue_ws_ticket, rate limited per user), and the handshake of          *)
(* stream_ws on any container verifies and consumes it.  Containers and    *)
(* the database have clocks of their own; verification reads one, and what *)
(* is remembered of used tickets is forgotten by another.                  *)
(***************************************************************************)
EXTENDS RateLimiter

CONSTANTS
    Scopes,     \* of each user (the limiter's Keys): the scopes of its JWT
    Skew,       \* of each container (the Limiters) and the Database
    Database,
    Ttl,        \* WS_TICKET_TTL_SECONDS
    PruneEvery, \* _Pruner's interval
    Bounds,     \* [checks, uses, on]: how many requests for tickets and
                \* handshakes a behaviour may have, and where the former are
    MaxTime

ASSUME TicketsAssumption ==
    /\ Scopes \in [Keys -> SUBSET STRING]
    /\ Skew \in [Limiters \cup {Database} -> Int]
    /\ Ttl \in Nat /\ MaxTime \in Nat /\ PruneEvery \in Nat

VARIABLES
    shared,     \* EVENT_BUS_BACKEND = postgres
    tickets,    \* the tickets that were issued
    used,       \* what each store remembers: the numbers of tickets
    pruned,     \* when each container's _Pruner was last due
    use         \* the handshakes

ticketVars == <<shared, tickets, used, pruned, use>>
vars == <<rateVars, ticketVars>>

TopicScope(topic) == IF topic = "items" THEN "items:read" ELSE "webhooks:read"
Topics == {"items", "webhooks"}
TicketScopes == {"events:read"} \cup {TopicScope(t) : t \in Topics}

Waiting == {"consuming", "pruning", "acquiring"}
Over == {"connected", "busy", "unknown_topic", "rejected", "forbidden", "error"}

Clock(c) == now + Skew[c]
Store(c) == IF shared THEN Database ELSE c

Init ==
    /\ RateInit
    /\ shared \in BOOLEAN
    /\ tickets = <<>>
    /\ used = [s \in Limiters \cup {Database} |-> {}]
    /\ pruned = [c \in Limiters |-> 0]
    /\ use = <<>>

Bounded(asked, n) ==
    \E b \in Bounds : Len(asked) <= b.checks /\ n <= b.uses
                      /\ \A i \in DOMAIN asked : asked[i].limiter \in b.on

Tick ==
    /\ now < MaxTime
    /\ now' = now + 1
    /\ UNCHANGED <<buckets, checks, ticketVars>>

\* issue_ws_ticket: 403 before the limiter is asked, 429 after it.  A ticket
\* carries no scope but what a stream can need.
Issue(c, u) ==
    /\ "events:read" \in Scopes[u]
    /\ Check(c, u)
    /\ Bounded(checks', Len(use))
    /\ tickets' = IF Wait(c, u) > 0 THEN tickets
                  ELSE Append(tickets, [user |-> u, scopes |-> Scopes[u] \cap TicketScopes,
                                        exp |-> Clock(c) + Ttl])
    /\ UNCHANGED <<shared, used, pruned, use>>

\* Mutant: any ticket opens any topic.
AnyTopic(n, topic) == "events:read" \in tickets[n].scopes

Allows(n, topic) ==
    "events:read" \in tickets[n].scopes /\ TopicScope(topic) \in tickets[n].scopes

\* stream_ws up to its first await: why it closes at once; 0 stands for a
\* ticket that is absent, forged, or an API token.
Refusal(c, n, topic) ==
    IF topic \notin Topics THEN "unknown_topic"
    ELSE IF n = 0 \/ tickets[n].exp <= Clock(c) THEN "rejected"
    ELSE IF ~ Allows(n, topic) THEN "forbidden"
    ELSE "none"

Verify(c, n, topic) ==
    LET refusal == Refusal(c, n, topic) IN
    /\ Bounded(checks, Len(use) + 1)
    /\ use' = Append(use,
          IF refusal # "none" THEN [at |-> refusal, won |-> FALSE]
          ELSE [at |-> "consuming", by |-> c, ticket |-> n, topic |-> topic,
                won |-> FALSE, late |-> FALSE])
    /\ UNCHANGED <<rateVars, shared, tickets, used, pruned>>

Go(a, to) == use' = [use EXCEPT ![a].at = to]

\* A handshake that wins is marked as late if its ticket had expired by then,
\* for the store that remembers it.
Dead(store, n) == tickets[n].exp <= Clock(store)

\* InMemoryTicketStore.consume forgets what has expired, then remembers.
ConsumeHere(a) ==
    LET c == use[a].by n == use[a].ticket
        kept == {m \in used[c] : ~ Dead(c, m)} IN
    /\ ~ shared /\ use[a].at = "consuming"
    /\ use' = [use EXCEPT ![a] = [use[a] EXCEPT
                !.at = IF n \in kept THEN "rejected" ELSE "acquiring",
                !.won = n \notin kept, !.late = Dead(c, n)]]
    /\ used' = [used EXCEPT ![c] = kept \cup {n}]
    /\ UNCHANGED <<rateVars, shared, tickets, pruned>>

\* _Pruner.due(), once per interval and container.
Due(c) == now - pruned[c] >= PruneEvery

\* Mutant: a look before the INSERT, which overwrites.
Overwrite(a) ==
    /\ shared /\ use[a].at = "consuming"
    /\ use' = [use EXCEPT ![a] = [use[a] EXCEPT !.at = "acquiring", !.won = TRUE,
                                           !.late = tickets[use[a].ticket].exp < Clock(Database)]]
    /\ used' = [used EXCEPT ![Database] = @ \cup {use[a].ticket}]
    /\ UNCHANGED <<rateVars, shared, tickets, pruned>>

\* PostgresTicketStore.consume: ON CONFLICT DO NOTHING, any time after the
\* verification,
Insert(a) ==
    LET c == use[a].by n == use[a].ticket IN
    /\ shared /\ use[a].at = "consuming"
    /\ used' = [used EXCEPT ![Database] = @ \cup {n}]
    /\ use' = [use EXCEPT ![a] = [use[a] EXCEPT
                !.at = IF Due(c) THEN "pruning"
                       ELSE IF n \in used[Database] THEN "rejected" ELSE "acquiring",
                !.won = n \notin used[Database],
                !.late = tickets[n].exp < Clock(Database)]]
    /\ pruned' = [pruned EXCEPT ![c] = IF Due(c) THEN now ELSE @]
    /\ UNCHANGED <<rateVars, shared, tickets>>

\* and then the DELETE of what has expired by the database's clock.
Prune(a) ==
    /\ use[a].at = "pruning"
    /\ used' = [used EXCEPT ![Database] = {n \in @ : tickets[n].exp >= Clock(Database)}]
    /\ Go(a, IF use[a].won THEN "acquiring" ELSE "rejected")
    /\ UNCHANGED <<rateVars, shared, tickets, pruned>>

\* The database raises, before or after a statement has taken effect, or the
\* container dies: no connection, and the ticket may be spent.
Raises(a) ==
    /\ shared /\ use[a].at \in {"consuming", "pruning"}
    /\ \/ use[a].at = "consuming"
          /\ used' = [used EXCEPT ![Database] = @ \cup {use[a].ticket}]
       \/ used' = used
    /\ Go(a, "error")
    /\ UNCHANGED <<rateVars, shared, tickets, pruned>>

\* A slot is free, or 1013: the ticket is gone all the same.
Acquire(a) ==
    /\ use[a].at = "acquiring"
    /\ Go(a, "connected") \/ Go(a, "busy")
    /\ UNCHANGED <<rateVars, shared, tickets, used, pruned>>

Next ==
    \/ Tick
    \/ \E c \in Limiters : \E u \in Keys : Issue(c, u)
    \/ \E c \in Limiters, n \in 0..Len(tickets), topic \in Topics \cup {"other"} :
          Verify(c, n, topic)
    \/ \E a \in DOMAIN use :
          \/ ConsumeHere(a) \/ Insert(a) \/ Prune(a) \/ Raises(a) \/ Acquire(a)

Spec == Init /\ [][Next]_vars

-----------------------------------------------------------------------------
(* Properties *)

TypeOK ==
    /\ RateTypeOK
    /\ shared \in BOOLEAN
    /\ tickets \in Seq([user : Keys, scopes : SUBSET TicketScopes, exp : Int])
    /\ used \in [Limiters \cup {Database} -> SUBSET DOMAIN tickets]
    /\ pruned \in [Limiters -> 0..now]
    /\ \A a \in DOMAIN use : use[a].at \in Waiting \cup Over

Wins(a, store) == use[a].won /\ Store(use[a].by) = store

\* A ticket opens one connection, on all containers that share its store, even
\* if handshakes overlap, fail or are turned away: if two win, the second of
\* them was verified in time but consumed when the store already took the
\* ticket for expired, and had forgotten the first.  And it opens a topic only
\* to a user who may read it.
OneConnection ==
    /\ \A a, b \in DOMAIN use, store \in Limiters \cup {Database} :
          (Wins(a, store) /\ Wins(b, store) /\ use[a].ticket = use[b].ticket /\ a # b)
          => use[a].late \/ use[b].late
    /\ \A a \in DOMAIN use : use[a].at = "connected" =>
          /\ use[a].won
          /\ {"events:read", TopicScope(use[a].topic)} \subseteq Scopes[tickets[use[a].ticket].user]

=============================================================================
