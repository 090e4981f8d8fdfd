------------------------------ MODULE Presence ------------------------------
(***************************************************************************)
(* Who looks at which section of an event's dashboard (apps/events,        *)
(* consumers/dashboard_presence.py).  Every connection has a consumer that *)
(* handles one message after the other; the consumers share two Redis keys *)
(* and a channel group.  The sorted set has the time each connection was   *)
(* last heard of, the hash what it shows.                                  *)
(*                                                                         *)
(* A handler is a list of Redis commands, each atomic and none of them in  *)
(* a transaction with another: a task holds those still to do.             *)
(***************************************************************************)
EXTENDS Naturals, Sequences, SequencesExt, FiniteSets

CONSTANTS
    Conns,         \* the connections to one event's dashboard
    UserOf,        \* whose they are
    Sections,      \* sections of the dashboard
    MaxEvents,     \* bound: page changes, pings and failures together
    MaxBusy        \* bound: handlers in progress at the same time

ASSUME UserOfAssumption == Conns \subseteq DOMAIN UserOf
ASSUME PresenceBoundsAssumption == {MaxEvents, MaxBusy} \subseteq Nat

VARIABLES
    phase,         \* of each connection: not authenticated, in the group, gone
    section,       \* current_section
    listed,        \* the sorted set: heard of within PRESENCE_TTL_SECONDS or before
    record,        \* the hash: the section recorded
    view,          \* the last presence.state the client was sent, if any
    task,          \* what each consumer is in the middle of
    events,        \* page changes, pings and failures so far
    lapsed,        \* history: connections whose entry grew old or got lost
    missed         \* history: changes that nobody was told of

stored  == <<listed, record>>
history == <<lapsed, missed>>
presenceVars == <<phase, section, stored, view, task, events, history>>

Unset == "unset"
ASSUME UnsetAssumption == Unset \notin Sections
States  == SUBSET ((Sections \cup {Unset}) \X {UserOf[c] : c \in Conns})
Misses  == {"overtaken", "quietly", "wiped", "expired", "torn"}

Commands == {"find", "forget", "drop", "probe", "stamp", "record", "unlist",
             "count", "clear", "scan", "fetch", "send", "show", "part"}

\* The handlers, command by command.
Read    == <<"find", "forget", "drop", "scan", "fetch">>   \* get_presence_state
Tell    == Append(Read, "send")                      \* broadcast_presence_state
Enter   == Append(Read, "show")                      \* send_presence_state
Refresh == <<"find", "forget", "drop", "probe">>     \* refresh_connection, so far
TakeOut == <<"unlist", "count">>                     \* remove_connection, so far

\* Mutation: the connection is not heard of.
StoreUnstamped == <<"record">>
Store == <<"stamp", "record">>                       \* store_connection

\* Mutation: the others are told too early.
ChangeLate == Tell \o Store
Moving == Store \o Tell                              \* a page.change

Fresh(todo) == [todo |-> todo, found |-> {}, seen |-> {}, state |-> {}, late |-> FALSE]
Quiet == Fresh(<<>>)
Tasks == [todo : Seq(Commands), found : SUBSET Conns, seen : SUBSET Conns,
          state : States, late : BOOLEAN]

-----------------------------------------------------------------------------
PresenceInit ==
    /\ phase = [c \in Conns |-> "out"]
    /\ section = [c \in Conns |-> Unset]
    /\ listed = [c \in Conns |-> "no"]
    /\ record = [c \in Conns |-> Unset]
    /\ view = [c \in Conns |-> {}]
    /\ task = [c \in Conns |-> Quiet]
    /\ events = 0
    /\ lapsed = {}
    /\ missed = {}

Listed   == {c \in Conns : listed[c] # "no"}
Stale    == {c \in Conns : listed[c] = "stale"}
InGroup  == {c \in Conns : phase[c] = "in"}

Shows(cs) == {<<record[c], UserOf[c]>> : c \in {x \in cs : record[x] # Unset}}

\* What get_presence_state would say.
Listing == Shows(Listed)

Happens == events < MaxEvents /\ events' = events + 1

ToDo(c, command) == Contains(task[c].todo, command)
Note(miss, when) == missed' = missed \cup IF when THEN {miss} ELSE {}

-----------------------------------------------------------------------------
(* Messages.                                                                *)

Handle(c, todo) ==
    /\ task[c] = Quiet
    /\ Cardinality({x \in Conns : task[x] # Quiet}) < MaxBusy
    /\ task' = [task EXCEPT ![c] = Fresh(todo)]

\* handle_authentication of a user who may see the dashboard: group_add, then
\* the state for this client only.
Authenticate(c) ==
    /\ phase[c] = "out"
    /\ phase' = [phase EXCEPT ![c] = "in"]
    /\ Handle(c, Enter)
    /\ UNCHANGED <<section, stored, view, events, history>>

PageChange(c, s) ==
    /\ phase[c] = "in"
    /\ Happens
    /\ section' = [section EXCEPT ![c] = s]
    /\ Handle(c, Moving)
    /\ UNCHANGED <<phase, stored, view, history>>

\* send_pong of a connection that has shown a section.
Ping(c) ==
    /\ phase[c] = "in" /\ section[c] # Unset
    /\ Happens
    /\ Handle(c, Refresh)
    /\ UNCHANGED <<phase, section, stored, view, history>>

\* disconnect tells the others if there was something to see.
Disconnect(c) ==
    /\ phase[c] = "in"
    /\ Handle(c, TakeOut \o (IF section[c] = Unset THEN <<>> ELSE Tell) \o <<"part">>)
    /\ UNCHANGED <<phase, section, stored, view, events, history>>

-----------------------------------------------------------------------------
(* Commands.                                                                *)

At(c, command) == task[c].todo # <<>> /\ Head(task[c].todo) = command
After(c) == [task[c] EXCEPT !.todo = Tail(@)]

\* The task after a command; when nothing is left to do nothing is remembered.
Goes(c, t) == task' = [task EXCEPT ![c] = IF t.todo = <<>> THEN Quiet ELSE t]

\* zrangebyscore up to the cutoff; without stale connections nothing is removed.
Find(c) ==
    /\ At(c, "find")
    /\ Goes(c, IF Stale = {} THEN [task[c] EXCEPT !.todo = SubSeq(@, 4, Len(@))]
                             ELSE [After(c) EXCEPT !.found = Stale])
    /\ UNCHANGED <<phase, section, stored, view, events, history>>

\* zrem of those found, whether or not they were heard of since.
Forget(c) ==
    LET found == task[c].found
        anew  == {x \in found : listed[x] = "fresh"}
    IN
    /\ At(c, "forget")
    /\ Goes(c, After(c))
    /\ listed' = [x \in Conns |-> IF x \in found THEN "no" ELSE listed[x]]
    /\ lapsed' = lapsed \cup anew
    /\ missed' = missed \cup (IF anew # {} THEN {"wiped"} ELSE {})
                        \cup (IF ToDo(c, "show") /\ found \cap Listed # {}
                              THEN {"quietly"} ELSE {})
    /\ UNCHANGED <<phase, section, record, view, events>>

\* hdel of those found.  One that was listed again meanwhile may stay without a
\* record (anew), or get it back from a ping that tells nobody (again).
Drop(c) ==
    LET found == task[c].found
        anew  == {x \in found : listed[x] # "no" /\ ~ToDo(x, "record")}
        again == {x \in found : listed[x] # "no" /\ ~ToDo(x, "send")}
    IN
    /\ At(c, "drop")
    /\ Goes(c, [After(c) EXCEPT !.found = IF ToDo(c, "probe") THEN @ ELSE {}])
    /\ record' = [x \in Conns |-> IF x \in found THEN Unset ELSE record[x]]
    /\ lapsed' = lapsed \cup anew
    /\ Note("wiped", anew \cup again # {})
    /\ UNCHANGED <<phase, section, listed, view, events>>

\* Does the refresh tell the others?  If somebody was removed, or this
\* connection was.
Tells(c) == task[c].found # {} \/ listed[c] = "no"

\* zscore of the connection itself.
Probe(c) ==
    /\ At(c, "probe")
    /\ Goes(c, Fresh(Store \o IF Tells(c) THEN Tell ELSE <<>>))
    /\ UNCHANGED <<phase, section, stored, view, events, history>>

\* zadd.
Stamp(c) ==
    /\ At(c, "stamp")
    /\ Goes(c, After(c))
    /\ listed' = [listed EXCEPT ![c] = "fresh"]
    /\ lapsed' = lapsed \ {c}
    /\ UNCHANGED <<phase, section, record, view, events, missed>>

\* hset, and expire of both keys.
Record(c) ==
    /\ At(c, "record")
    /\ Goes(c, After(c))
    /\ record' = [record EXCEPT ![c] = section[c]]
    /\ UNCHANGED <<phase, section, listed, view, events, history>>

\* zrem and hdel: a record that is not listed is not looked at.
Unlist(c) ==
    /\ At(c, "unlist")
    /\ Goes(c, After(c))
    /\ listed' = [listed EXCEPT ![c] = "no"]
    /\ record' = [record EXCEPT ![c] = Unset]
    /\ UNCHANGED <<phase, section, view, events, history>>

NobodyListed == Listed = {}

\* zcard: the last one out deletes the keys.
Count(c) ==
    /\ At(c, "count")
    /\ Goes(c, IF NobodyListed
               THEN [task[c] EXCEPT !.todo = <<"clear">> \o Tail(@), !.seen = Listed]
               ELSE After(c))
    /\ UNCHANGED <<phase, section, stored, view, events, history>>

\* delete of both keys, with whoever came since they were counted.
Clear(c) ==
    LET since == Listed \ task[c].seen IN
    /\ At(c, "clear")
    /\ Goes(c, [After(c) EXCEPT !.seen = {}])
    /\ listed' = [x \in Conns |-> "no"]
    /\ record' = [x \in Conns |-> Unset]
    /\ lapsed' = lapsed \cup since
    /\ Note("wiped", since # {})
    /\ UNCHANGED <<phase, section, view, events>>

\* zrange, then hgetall.
ScanListed(c) ==
    /\ At(c, "scan")
    /\ Goes(c, [After(c) EXCEPT !.seen = Listed])
    /\ UNCHANGED <<phase, section, stored, view, events, history>>

Fetch(c) ==
    /\ At(c, "fetch")
    /\ Goes(c, [After(c) EXCEPT !.state = Shows(task[c].seen), !.seen = {}])
    /\ UNCHANGED <<phase, section, stored, view, events, history>>

\* group_send: the clients get the states in the order they were sent in.  What
\* the others have read and not sent yet is late.
Broadcast(c) ==
    LET t == task[c] IN
    /\ At(c, "send")
    /\ view' = [x \in Conns |-> IF x \in InGroup THEN {t.state} ELSE view[x]]
    /\ task' = [x \in Conns |->
           CASE x = c -> IF Len(t.todo) = 1 THEN Quiet ELSE Fresh(Tail(t.todo))
             [] x # c /\ ToDo(x, "send") /\ ~ToDo(x, "scan") ->
                    [task[x] EXCEPT !.late = TRUE]
             [] OTHER -> task[x]]
    /\ Note("overtaken", t.late /\ t.state # Listing)
    /\ UNCHANGED <<phase, section, stored, events, lapsed>>

\* send: what was sent to the group since group_add waits until this handler is
\* done, and comes after it.
Show(c) ==
    /\ At(c, "show")
    /\ Goes(c, After(c))
    /\ view' = [view EXCEPT ![c] = IF @ = {} THEN {task[c].state} ELSE @]
    /\ UNCHANGED <<phase, section, stored, events, history>>

\* group_discard.
Part(c) ==
    /\ At(c, "part")
    /\ Goes(c, After(c))
    /\ phase' = [phase EXCEPT ![c] = "gone"]
    /\ UNCHANGED <<section, stored, view, events, history>>

\* The handler raises, which receive() answers with an error message; a
\* connection that was about to leave is gone.
Raises(c) ==
    /\ task[c] # Quiet
    /\ Happens
    /\ task' = [task EXCEPT ![c] = Quiet]
    /\ phase' = [phase EXCEPT ![c] = IF ToDo(c, "part") THEN "gone" ELSE @]
    /\ lapsed' = lapsed \cup {c}
    /\ missed' = missed \cup {"torn"}
    /\ UNCHANGED <<section, stored, view>>

\* The server dies, in the middle of a handler or not: nobody disconnects.
Dies(c) ==
    /\ phase[c] = "in"
    /\ Happens
    /\ phase' = [phase EXCEPT ![c] = "gone"]
    /\ task' = [task EXCEPT ![c] = Quiet]
    /\ Note("torn", task[c] # Quiet)
    /\ UNCHANGED <<section, stored, view, lapsed>>

-----------------------------------------------------------------------------
(* Time.                                                                    *)

\* PRESENCE_TTL_SECONDS pass without a word from the connection.
Age(c) ==
    /\ listed[c] = "fresh" /\ task[c] = Quiet
    /\ listed' = [listed EXCEPT ![c] = "stale"]
    /\ lapsed' = lapsed \cup {c}
    /\ UNCHANGED <<phase, section, record, view, task, events, missed>>

\* The keys live on for as long after the latest expire: who is listed since and
\* has not come to extending them goes with the others.
KeysRunOut == \A c \in Conns : listed[c] = "fresh" => ToDo(c, "record")

ExpireList ==
    /\ KeysRunOut /\ Listed # {}
    /\ listed' = [c \in Conns |-> "no"]
    /\ lapsed' = lapsed \cup Listed
    /\ missed' = missed \cup {"expired"}
    /\ UNCHANGED <<phase, section, record, view, task, events>>

ExpireRecords ==
    LET lost == {c \in Conns : record[c] # Unset} IN
    /\ KeysRunOut /\ lost # {}
    /\ record' = [c \in Conns |-> Unset]
    /\ lapsed' = lapsed \cup {c \in lost : ~ToDo(c, "record")}
    /\ missed' = missed \cup {"expired"}
    /\ UNCHANGED <<phase, section, listed, view, task, events>>

-----------------------------------------------------------------------------
Receives(c) ==
    \/ Authenticate(c) \/ Ping(c) \/ Disconnect(c)
    \/ \E s \in Sections : PageChange(c, s)

Works(c) ==
    \/ Find(c) \/ Forget(c) \/ Drop(c) \/ Probe(c) \/ Stamp(c) \/ Record(c)
    \/ Unlist(c) \/ Count(c) \/ Clear(c)
    \/ ScanListed(c) \/ Fetch(c) \/ Broadcast(c) \/ Show(c) \/ Part(c)

PresenceNext ==
    \/ \E c \in Conns : Receives(c) \/ Works(c) \/ Raises(c) \/ Dies(c) \/ Age(c)
    \/ ExpireList \/ ExpireRecords

PresenceSpec == PresenceInit /\ [][PresenceNext]_presenceVars

-----------------------------------------------------------------------------
(* Properties.                                                              *)

\* Type invariant.
PresenceTypeOK ==
    /\ phase \in [Conns -> {"out", "in", "gone"}]
    /\ section \in [Conns -> Sections \cup {Unset}]
    /\ listed \in [Conns -> {"no", "fresh", "stale"}]
    /\ record \in [Conns -> Sections \cup {Unset}]
    /\ view \in [Conns -> SUBSET States]
    /\ task \in [Conns -> Tasks]
    /\ events \in 0 .. MaxEvents
    /\ lapsed \subseteq Conns /\ missed \subseteq Misses

\* A connection that has told its section and was heard of in time is listed,
\* with that section: whoever else comes, leaves, sweeps or dies.  Unless its
\* entry grew old, its own handler failed, or another consumer removed it after
\* it had been written anew (dashboard_presence.py:209, 248): until the next ping.
LiveIsListed ==
    \A c \in InGroup \ lapsed :
        task[c] = Quiet /\ section[c] # Unset =>
            listed[c] # "no" /\ record[c] = section[c]

\* When nothing is going on, every client shows what is stored: each change was
\* told, and the last one was told last.  Unless a state overtook a newer one,
\* an arrival swept somebody without telling (line 305), a consumer removed an
\* entry written anew, the keys ran out, or a handler ended half way.
ViewsAgree ==
    missed = {} /\ (\A c \in Conns : task[c] = Quiet) =>
        \A c \in InGroup : view[c] = {Listing}
=============================================================================
