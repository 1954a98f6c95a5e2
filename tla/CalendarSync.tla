---------------------------- MODULE CalendarSync ----------------------------
(***************************************************************************)
(* What a run of Work's calendar sync does while it works: it pulls what   *)
(* changed at the provider since the stored cursor, reads the calendar's   *)
(* events and the mappings between the two, settles each change, pushes    *)
(* what changed here, removes there what was removed here, and stores the  *)
(* new cursor.  Users edit on both sides all the while.                    *)
(*                                                                         *)
(* One linked calendar, events that do not recur.  An event is its         *)
(* content, which stands for its hash too.  The provider is external:      *)
(* every write there gets the next number, which serves as the event's     *)
(* etag and as its place in the change log; a write that names an etag is  *)
(* refused unless it is the current one; a new event gets a new id.        *)
(***************************************************************************)
EXTENDS SyncLease

CONSTANTS
  LocalIds, RemoteIds, MappingIds,   \* ids that may be given out, each at most once
  Contents,
  Unused, Gone,                      \* an id not given out yet; a deleted row or event
  NotRead,                           \* what a run has not read yet
  MaxEdits,                          \* bound: edits by users, on both sides
  MaxTick                            \* bound: writes at the provider

ASSUME CalendarSyncAssumption ==
  /\ Unused # Gone
  /\ {Unused, Gone} \cap Contents = {}
  /\ MaxEdits \in Nat
  /\ MaxTick \in Nat \ {0}          \* room for the event of a calendar in sync

VARIABLES
  localEvents,   \* localEvents[l]: content of the calendar's event l
  remoteEvents,  \* remoteEvents[x]: content and etag of the provider's event x
  tick,          \* the provider's last write
  mappings,      \* mappings[m]: a row that pairs an event here with one there
  cursor,        \* the stored sync cursor
  pullOnly,      \* the direction of the calendar's mapping
  syncs,         \* syncs[r]: what run r has read and still has to do
  edits,         \* number of edits by users so far
  unseen,        \* history: provider's events edited since they were last pulled
  missed,        \* history: deletions that a full listing left out
  disturbed      \* history: runs during which a user edited an event

calendarVars == <<localEvents, remoteEvents, tick, mappings, cursor, pullOnly, syncs,
                  edits, unseen, missed, disturbed>>
syncVars == <<leaseVars, calendarVars>>

Maybe(S)  == S \cup {Unused, Gone}
Remote    == [content : Maybe(Contents), etag : 0..MaxTick]
Mapping   == [local : LocalIds, remote : RemoteIds, etag : 0..MaxTick, hash : Contents]

(* The marks are none of the things they stand for the absence of. *)
ASSUME MarksAssumption ==
  /\ {Unused, Gone} \cap Mapping = {}
  /\ \A listed \in SUBSET RemoteIds : NotRead \notin [listed -> Remote]

Nothing == [op |-> "nothing"]

NewSync == [pulled |-> NotRead, upto |-> 0, mine |-> NotRead, maps |-> NotRead,
            todo |-> Nothing, done |-> FALSE]

SyncTypeOK ==
  /\ LeaseTypeOK
  /\ localEvents \in [LocalIds -> Maybe(Contents)]
  /\ remoteEvents \in [RemoteIds -> Remote]
  /\ tick \in 0..MaxTick
  /\ \A x \in RemoteIds : remoteEvents[x].etag <= tick
  /\ mappings \in [MappingIds -> Maybe(Mapping)]
  /\ cursor \in 0..tick
  /\ pullOnly \in BOOLEAN
  /\ edits \in 0..MaxEdits
  /\ unseen \subseteq RemoteIds /\ missed \subseteq RemoteIds
  /\ disturbed \subseteq SyncRuns
  /\ \A r \in SyncRuns : LET s == syncs[r] IN
       /\ DOMAIN s = DOMAIN NewSync
       /\ s.pulled # NotRead => DOMAIN s.pulled \subseteq RemoteIds
       /\ s.mine # NotRead => s.mine \in [LocalIds -> Maybe(Contents)]
       /\ s.maps # NotRead => s.maps \in [MappingIds -> Maybe(Mapping)]
       /\ s.upto \in 0..tick

(* A calendar just linked, or one with an event that is in sync. *)
SyncInit ==
  /\ LeaseInit
  /\ pullOnly \in BOOLEAN
  /\ \/ /\ localEvents = [l \in LocalIds |-> Unused]
        /\ remoteEvents = [x \in RemoteIds |-> [content |-> Unused, etag |-> 0]]
        /\ mappings = [m \in MappingIds |-> Unused]
        /\ tick = 0 /\ cursor = 0
     \/ \E l \in LocalIds, x \in RemoteIds, m \in MappingIds, c \in Contents :
        /\ localEvents = [k \in LocalIds |-> IF k = l THEN c ELSE Unused]
        /\ remoteEvents = [y \in RemoteIds |-> IF y = x THEN [content |-> c, etag |-> 1]
                                               ELSE [content |-> Unused, etag |-> 0]]
        /\ mappings = [n \in MappingIds |->
                         IF n = m THEN [local |-> l, remote |-> x, etag |-> 1, hash |-> c]
                         ELSE Unused]
        /\ tick = 1 /\ cursor = 1
  /\ syncs = [r \in SyncRuns |-> NewSync]
  /\ edits = 0
  /\ unseen = {} /\ missed = {} /\ disturbed = {}

Live(c) == c \notin {Unused, Gone}

-----------------------------------------------------------------------------
(* Steps of a run *)

(* What no step of a run changes *)
users == <<edits, missed, disturbed, pullOnly>>

Progress(r, s) == syncs' = [syncs EXCEPT ![r] = s]

Since(c) == {x \in RemoteIds : remoteEvents[x].etag > c}

(* pullProviderCalendar.  A provider that no longer knows the cursor is    *)
(* asked for everything; whether the list names deleted events is its      *)
(* affair.                                                                 *)
PullChanges(r) ==
  LET everything == {x \in RemoteIds : Live(remoteEvents[x].content)} IN
  /\ syncRuns[r].phase = "working" /\ syncs[r].pulled = NotRead
  /\ \E listed \in {Since(cursor), everything} :
       /\ Progress(r, [syncs[r] EXCEPT !.upto = tick,
                         !.pulled = [x \in listed |-> remoteEvents[x]]])
       /\ unseen' = unseen \ listed
       /\ missed' = missed \cup (Since(cursor) \ listed)
  /\ UNCHANGED <<localEvents, remoteEvents, tick, mappings, cursor, pullOnly, edits, disturbed>>

(* The two reads run side by side. *)
ReadLocalEvents(r) ==
  /\ syncs[r].pulled # NotRead /\ syncs[r].mine = NotRead
  /\ syncRuns[r].phase = "working"
  /\ Progress(r, [syncs[r] EXCEPT !.mine = localEvents])
  /\ UNCHANGED <<localEvents, remoteEvents, tick, mappings, cursor, unseen, users>>

ReadMappings(r) ==
  /\ syncs[r].pulled # NotRead /\ syncs[r].maps = NotRead
  /\ syncRuns[r].phase = "working"
  /\ Progress(r, [syncs[r] EXCEPT !.maps = mappings])
  /\ UNCHANGED <<localEvents, remoteEvents, tick, mappings, cursor, unseen, users>>

Ready(r) ==
  /\ syncRuns[r].phase = "working"
  /\ syncs[r].mine # NotRead /\ syncs[r].maps # NotRead
  /\ syncs[r].todo = Nothing /\ ~ syncs[r].done

MappedTo(s, x) == {m \in MappingIds : Live(s.maps[m]) /\ s.maps[m].remote = x}
MappedBy(s, l) == {m \in MappingIds : Live(s.maps[m]) /\ s.maps[m].local = l}

Without(f, x) == [y \in DOMAIN f \ {x} |-> f[y]]

(* The mapping's row is written after the event it is about. *)
CreateState(row)    == [op |-> "create", row |-> row]
UpdateState(m, new) == [op |-> "update", mapping |-> m, new |-> new]
RemoveState(m)      == [op |-> "remove", mapping |-> m]

(* Mutant: the push does not name the etag it knows. *)
PushUnconditionally(r, s, m) ==
  LET row == s.maps[m] IN
  /\ Live(remoteEvents[row.remote].content)
  /\ tick < MaxTick
  /\ tick' = tick + 1
  /\ remoteEvents' = [remoteEvents EXCEPT ![row.remote] =
                        [content |-> s.mine[row.local], etag |-> tick + 1]]
  /\ Progress(r, [s EXCEPT !.todo =
                    UpdateState(m, [remote |-> row.remote, etag |-> tick + 1,
                                    hash |-> s.mine[row.local]])])
  /\ UNCHANGED <<localEvents, mappings, cursor, unseen, users>>

(* provider.push of an event that is already there, with the mapping's     *)
(* etag.  When the provider refuses it, the sync fails.                    *)
PushChanged(r, s, m) ==
  LET row == s.maps[m] IN
  /\ Live(remoteEvents[row.remote].content)
  /\ remoteEvents[row.remote].etag = row.etag
  /\ tick < MaxTick
  /\ tick' = tick + 1
  /\ remoteEvents' = [remoteEvents EXCEPT ![row.remote] =
                        [content |-> s.mine[row.local], etag |-> tick + 1]]
  /\ Progress(r, [s EXCEPT !.todo =
                    UpdateState(m, [remote |-> row.remote, etag |-> tick + 1,
                                    hash |-> s.mine[row.local]])])
  /\ UNCHANGED <<localEvents, mappings, cursor, unseen, users>>

(* provider.push of an event that is not there.  Once the provider has     *)
(* named it, todo says what row to write.                                  *)
PushNew(r, s, l, todo) ==
  \E x \in RemoteIds :
    /\ remoteEvents[x].content = Unused
    /\ tick < MaxTick
    /\ tick' = tick + 1
    /\ remoteEvents' = [remoteEvents EXCEPT ![x] = [content |-> s.mine[l], etag |-> tick + 1]]
    /\ Progress(r, [s EXCEPT !.todo = todo[x]])
    /\ UNCHANGED <<localEvents, mappings, cursor, unseen, users>>

-----------------------------------------------------------------------------
(* Pulled changes *)

Settles(r, x) == Ready(r) /\ x \in DOMAIN syncs[r].pulled

(* What is left of the run's work once change x is settled *)
Rest(r, x) == [syncs[r] EXCEPT !.pulled = Without(@, x)]

(* The provider's event was deleted.                                       *)
PullDeletion(r, x) ==
  LET s == Rest(r, x) IN
  /\ Settles(r, x) /\ syncs[r].pulled[x].content = Gone
  /\ IF MappedTo(s, x) = {}
     THEN /\ Progress(r, s)
          /\ UNCHANGED <<localEvents, remoteEvents, tick, mappings, cursor, unseen, users>>
     ELSE \E m \in MappedTo(s, x) :
            LET l == s.maps[m].local IN
            CASE ~ Live(s.mine[l]) ->
                   /\ Progress(r, [s EXCEPT !.todo = RemoveState(m)])
                   /\ UNCHANGED <<localEvents, remoteEvents, tick, mappings, cursor, unseen, users>>
              [] Live(s.mine[l]) /\ ~ pullOnly /\ s.mine[l] # s.maps[m].hash ->
                   \* shouldRecreateRemoteDeletion
                   PushNew(r, s, l, [y \in RemoteIds |->
                     UpdateState(m, [remote |-> y, etag |-> tick + 1, hash |-> s.mine[l]])])
              [] OTHER ->
                   /\ localEvents' = [localEvents EXCEPT ![l] = Gone]
                   /\ Progress(r, [s EXCEPT !.mine[l] = Gone, !.todo = RemoveState(m)])
                   /\ UNCHANGED <<remoteEvents, tick, mappings, cursor, unseen, users>>

(* The provider's event has no event here: it is new, or its event here    *)
(* was deleted.                                                            *)
PullNew(r, x) ==
  LET s  == Rest(r, x)
      it == syncs[r].pulled[x]
  IN
  /\ Settles(r, x) /\ Live(it.content)
  /\ \A m \in MappedTo(s, x) : ~ Live(s.mine[s.maps[m].local])
  /\ \E l \in LocalIds :
       /\ localEvents[l] = Unused
       /\ localEvents' = [localEvents EXCEPT ![l] = it.content]
       /\ Progress(r, [s EXCEPT !.mine[l] = it.content,
            !.todo = IF MappedTo(s, x) = {}
                     THEN CreateState([local |-> l, remote |-> x, etag |-> it.etag,
                                       hash |-> it.content])
                     ELSE UpdateState(CHOOSE m \in MappedTo(s, x) : TRUE,
                            [local |-> l, etag |-> it.etag, hash |-> it.content])])
  /\ UNCHANGED <<remoteEvents, tick, mappings, cursor, unseen, users>>

(* resolveSyncConflict.  When both changed, the two clocks decide; nothing *)
(* is assumed of them.                                                     *)
Resolutions(mine, theirs, synced) ==
  IF mine = synced /\ theirs = synced THEN {"UNCHANGED"}
  ELSE IF pullOnly THEN {"APPLY_REMOTE"}
  ELSE (IF mine # synced THEN {"PUSH_LOCAL"} ELSE {})
       \cup (IF theirs # synced THEN {"APPLY_REMOTE"} ELSE {})

PullChange(r, x, resolution) ==
  LET s  == Rest(r, x)
      it == syncs[r].pulled[x]
  IN
  /\ Settles(r, x) /\ Live(it.content)
  /\ \E m \in MappedTo(s, x) :
       LET l == s.maps[m].local IN
       /\ Live(s.mine[l])
       /\ resolution \in Resolutions(s.mine[l], it.content, s.maps[m].hash)
       /\ \/ /\ resolution = "UNCHANGED"
             /\ Progress(r, [s EXCEPT !.todo = UpdateState(m, [etag |-> it.etag])])
             /\ UNCHANGED <<localEvents, remoteEvents, tick, mappings, cursor, unseen, users>>
          \/ /\ resolution = "PUSH_LOCAL"
             /\ PushChanged(r, s, m)
          \/ /\ resolution = "APPLY_REMOTE"
             /\ Live(localEvents[l])
             /\ localEvents' = [localEvents EXCEPT ![l] = it.content]
             /\ Progress(r, [s EXCEPT !.mine[l] = it.content,
                  !.todo = UpdateState(m, [etag |-> it.etag, hash |-> it.content])])
             /\ UNCHANGED <<remoteEvents, tick, mappings, cursor, unseen, users>>

-----------------------------------------------------------------------------
(* Changes here, and the end *)

(* Mutant: an event that has a mapping is not compared with what was synced. *)
ToPushNewOnly(s) == {l \in LocalIds : Live(s.mine[l]) /\ MappedBy(s, l) = {}}

ToPush(s) ==
  {l \in LocalIds : /\ Live(s.mine[l])
                    /\ \A m \in MappedBy(s, l) : s.maps[m].hash # s.mine[l]}

ToRemove(s) == {m \in MappingIds : Live(s.maps[m]) /\ ~ Live(s.mine[s.maps[m].local])}

AllPulled(r) == Ready(r) /\ DOMAIN syncs[r].pulled = {}

PushEvent(r, l) ==
  LET s == syncs[r] IN
  /\ AllPulled(r) /\ ~ pullOnly /\ l \in ToPush(s)
  /\ \/ /\ MappedBy(s, l) = {}
        /\ PushNew(r, s, l, [y \in RemoteIds |->
             CreateState([local |-> l, remote |-> y, etag |-> tick + 1, hash |-> s.mine[l]])])
     \/ \E m \in MappedBy(s, l) : PushChanged(r, s, m)

RemoveThere(r, m) ==
  LET s   == syncs[r]
      row == s.maps[m]
  IN
  /\ AllPulled(r) /\ ~ pullOnly /\ ToPush(s) = {} /\ m \in ToRemove(s)
  /\ Live(remoteEvents[row.remote].content)
  /\ remoteEvents[row.remote].etag = row.etag
  /\ tick < MaxTick
  /\ tick' = tick + 1
  /\ remoteEvents' = [remoteEvents EXCEPT ![row.remote] = [content |-> Gone, etag |-> tick + 1]]
  /\ Progress(r, [s EXCEPT !.todo = RemoveState(m)])
  /\ UNCHANGED <<localEvents, mappings, cursor, unseen, users>>

Merged(new, old) == [k \in DOMAIN old |-> IF k \in DOMAIN new THEN new[k] ELSE old[k]]

(* Unique keys: within a calendar no two mappings name the same event here *)
(* or the same event there.                                                *)
PairedUp(rows) ==
  \A m, n \in MappingIds :
    m # n /\ Live(rows[m]) /\ Live(rows[n]) =>
      rows[m].local # rows[n].local /\ rows[m].remote # rows[n].remote

(* createState, updateState, removeState.  A row that another run removed, *)
(* or one that breaks a key, throws: then the run only fails.              *)
SaveMapping(r) ==
  LET s    == syncs[r]
      todo == s.todo
  IN
  /\ syncRuns[r].phase = "working" /\ todo # Nothing
  /\ \E m \in MappingIds :
       LET saved == CASE todo.op = "create" -> todo.row
                      [] todo.op = "update" -> Merged(todo.new, mappings[m])
                      [] todo.op = "remove" -> Gone
       IN
       /\ IF todo.op = "create" THEN mappings[m] = Unused
          ELSE m = todo.mapping /\ Live(mappings[m])
       /\ mappings' = [mappings EXCEPT ![m] = saved]
       /\ PairedUp(mappings')
       /\ Progress(r, [s EXCEPT !.maps[m] = saved, !.todo = Nothing])
  /\ UNCHANGED <<localEvents, remoteEvents, tick, cursor, unseen, users>>

(* Mutant: the cursor is stored before the changes are settled. *)
SettledAtOnce(r) == Ready(r)

Settled(r) ==
  /\ AllPulled(r)
  /\ pullOnly \/ (ToPush(syncs[r]) = {} /\ ToRemove(syncs[r]) = {})

(* Mutant: the cursor that is stored lies past the changes that were pulled. *)
SaveCursorPast(r) ==
  /\ Settled(r)
  /\ cursor' = syncs[r].upto + 1
  /\ Progress(r, [syncs[r] EXCEPT !.done = TRUE])
  /\ UNCHANGED <<localEvents, remoteEvents, tick, mappings, unseen, users>>

SaveCursor(r) ==
  /\ Settled(r)
  /\ cursor' = syncs[r].upto
  /\ Progress(r, [syncs[r] EXCEPT !.done = TRUE])
  /\ UNCHANGED <<localEvents, remoteEvents, tick, mappings, unseen, users>>

SyncStep(r) ==
  \/ PullChanges(r) \/ ReadLocalEvents(r) \/ ReadMappings(r)
  \/ \E x \in RemoteIds :
       \/ PullDeletion(r, x) \/ PullNew(r, x)
       \/ \E resolution \in {"UNCHANGED", "PUSH_LOCAL", "APPLY_REMOTE"} :
            PullChange(r, x, resolution)
  \/ \E l \in LocalIds : PushEvent(r, l)
  \/ \E m \in MappingIds : RemoveThere(r, m)
  \/ SaveMapping(r) \/ SaveCursor(r)

(* The work returns once the cursor is stored.  It may fail anywhere:      *)
(* something is refused by the provider, the network or the database.      *)
SucceedSync(r) == syncs[r].done /\ FinishWork(r, "ok", "ACTIVE")

FailSync(r) ==
  \E result \in {"error", "threw"}, status \in ConnectionStatus : FinishWork(r, result, status)

-----------------------------------------------------------------------------
(* Users *)

Disturb == disturbed' = disturbed \cup {r \in SyncRuns : syncRuns[r].phase = "working"}

EditHere(l, c) ==
  /\ edits < MaxEdits
  /\ localEvents[l] \notin {c, Gone}
  /\ Live(localEvents[l]) \/ c # Gone
  /\ localEvents' = [localEvents EXCEPT ![l] = c]
  /\ edits' = edits + 1
  /\ Disturb
  /\ UNCHANGED <<remoteEvents, tick, mappings, cursor, pullOnly, syncs, unseen, missed>>

EditThere(x, c) ==
  /\ edits < MaxEdits
  /\ remoteEvents[x].content \notin {c, Gone}
  /\ Live(remoteEvents[x].content) \/ c # Gone
  /\ tick < MaxTick
  /\ tick' = tick + 1
  /\ remoteEvents' = [remoteEvents EXCEPT ![x] = [content |-> c, etag |-> tick + 1]]
  /\ unseen' = unseen \cup {x}
  /\ edits' = edits + 1
  /\ Disturb
  /\ UNCHANGED <<localEvents, mappings, cursor, pullOnly, syncs, missed>>

EditStep ==
  \E c \in Contents \cup {Gone} :
    \/ \E l \in LocalIds : EditHere(l, c)
    \/ \E x \in RemoteIds : EditThere(x, c)

(* What a run has read goes with it. *)
Forget(r) ==
  /\ syncs' = [syncs EXCEPT ![r] = NewSync]
  /\ disturbed' = disturbed \ {r}
  /\ UNCHANGED <<localEvents, remoteEvents, tick, mappings, cursor, pullOnly, edits,
                 unseen, missed>>

SyncNext ==
  \/ /\ (\E r \in SyncRuns : LeaseStep(r)) \/ ExpireLease \/ UserStep
     /\ UNCHANGED calendarVars
  \/ \E r \in SyncRuns : (SucceedSync(r) \/ FailSync(r) \/ CrashRun(r)) /\ Forget(r)
  \/ /\ (\E r \in SyncRuns : SyncStep(r)) \/ EditStep
     /\ UNCHANGED leaseVars

SyncSpec == SyncInit /\ [][SyncNext]_syncVars

-----------------------------------------------------------------------------
(* Properties *)

(* What the stored cursor has passed has been taken in: every event of the *)
(* provider that last changed before it is mapped, with its present etag   *)
(* and content.  So no failure, crash or restart of a run makes the next   *)
(* one skip a change.  Excepted are runs that worked without a lease.      *)
CursorCovers ==
  lapsed = {} =>
    \A x \in RemoteIds :
      Live(remoteEvents[x].content) /\ remoteEvents[x].etag <= cursor =>
        \E m \in MappingIds :
          /\ Live(mappings[m]) /\ mappings[m].remote = x
          /\ mappings[m].etag = remoteEvents[x].etag
          /\ mappings[m].hash = remoteEvents[x].content

Paired(l, x) == \E m \in MappingIds : /\ Live(mappings[m])
                                      /\ mappings[m].local = l /\ mappings[m].remote = x
                                      /\ localEvents[l] = remoteEvents[x].content

(* A two-way sync that succeeds while no user edits anything leaves both   *)
(* sides equal, whatever earlier runs left half done: every event here is  *)
(* paired with an equal one there, and the other way round.                *)
QuietSyncConverges ==
  \A r \in SyncRuns :
    /\ syncs[r].done /\ syncRuns[r].phase = "working"
    /\ r \notin disturbed /\ lapsed = {} /\ missed = {} /\ ~ pullOnly
    => /\ \A l \in LocalIds : Live(localEvents[l]) => \E x \in RemoteIds : Paired(l, x)
       /\ \A x \in RemoteIds : Live(remoteEvents[x].content) =>
                               \E l \in LocalIds : Paired(l, x)

(* A run never overwrites or deletes an edit at the provider that no run   *)
(* has pulled yet.                                                         *)
NoBlindOverwrite ==
  [][ edits' = edits =>
        \A x \in RemoteIds : remoteEvents'[x] # remoteEvents[x] => x \notin unseen ]_syncVars
=============================================================================
