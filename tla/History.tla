-------------------------------- MODULE History --------------------------------
(***************************************************************************)
(* Import of a growing conversation (history/codex.py): exports are taken  *)
(* of one thread while it goes on, whole or as a page of its newest items, *)
(* and each may be imported, again and at the same time as another.        *)
(* thread_events numbers what it retains of an export; the event store     *)
(* refuses an event one of whose identities it knows with other content.   *)
(***************************************************************************)
EXTENDS Naturals, Sequences, FiniteSets, SequencesExt

CONSTANTS
  Talk,        \* the items of the conversation, as far as it gets: kind ("visible", "synthetic"
               \* or "reasoning") and whether it has a time of its own
  Titles,      \* titles and other metadata of the thread, which each event repeats
  Pages,       \* sizes of pages that readers ask for
  MaxExports,  \* model bound
  BatchSize,
  Importers

VARIABLES
  said, title,  \* the thread: how far the talk is, and its title now
  exports,      \* files that were written
  events,       \* rows of the session
  at,           \* importers: the export, the events to be written, whether one by one
  imported      \* history: exports that were imported to their end

vars == <<said, title, exports, events, at, imported>>

Idle == [export |-> 0, todo |-> <<>>, singles |-> 0]

Init ==
  /\ said = 0 /\ title \in Titles
  /\ exports = <<>>
  /\ events = {}
  /\ at = [p \in Importers |-> Idle]
  /\ imported = {}

-------------------------------------------------------------------------------
(* The host.  Items keep their number as id; a page lists the newest first. *)

Say ==
  /\ said < Len(Talk)
  /\ said' = said + 1
  /\ UNCHANGED <<title, exports, events, at, imported>>

Rename ==
  /\ said > 0
  /\ title' \in Titles \ {title}
  /\ UNCHANGED <<said, exports, events, at, imported>>

Newest(n) == [i \in 1 .. n |-> said + 1 - i]

Oldest(n) == Reverse(Newest(n))

Write(file) ==
  /\ Len(exports) < MaxExports
  /\ exports' = Append(exports, file)
  /\ UNCHANGED <<said, title, events, at, imported>>

ExportAll ==
  Write([items |-> Oldest(said), order |-> "oldest_first", title |-> title, updated |-> said])

ExportPage ==
  \E n \in Pages :
    /\ n <= said
    /\ Write([items |-> Newest(n), order |-> "newest_first", title |-> title, updated |-> said])

-------------------------------------------------------------------------------
(* thread_events *)

Chronological(file) ==
  IF file.order = "newest_first" THEN Reverse(file.items) ELSE file.items

\* What a loop over s that skips the others yields.
Kept(s, wanted) ==
  LET kept[n \in 0 .. Len(s)] ==
        IF n = 0 THEN <<>> ELSE IF s[n] \in wanted THEN Append(kept[n - 1], s[n]) ELSE kept[n - 1]
  IN  kept[Len(s)]

ItemsBut(kind) == {i \in DOMAIN Talk : Talk[i].kind # kind}

\* _visible_items: a message of which nothing is left is not an item.
VisibleItems(file) == Kept(Chronological(file), ItemsBut("synthetic"))

\* _item_to_event: no event for what the model thought.
Retained(file) == Kept(VisibleItems(file), ItemsBut("reasoning"))

StartId(file) == <<"start", file.title>>

\* The digest of an item is one of its id and content, its external id has only the id.
ItemId(i) == <<"item", i>>

IdBefore(file, seq) == IF seq = 1 THEN StartId(file) ELSE ItemId(Retained(file)[seq - 1])

Event(file, seq, id, external, parent, time, count) ==
  [id |-> id, external |-> external, seq |-> seq, parent |-> parent, time |-> time,
   count |-> count, title |-> file.title]

StartEvent(file) ==
  Event(file, 0, StartId(file), <<"start">>, <<>>, 0, Len(VisibleItems(file)))

\* An item without a time of its own gets the time of the thread's last change.  Every item has
\* an id here: the one that is made up from its place for an item without (item-n) is left out.
ItemEvent(file, seq) ==
  LET i == Retained(file)[seq]
  IN  Event(file, seq, ItemId(i), ItemId(i), IdBefore(file, seq),
            IF Talk[i].stamped THEN 0 ELSE file.updated, 0)

EndEvent(file) ==
  LET seq == Len(Retained(file)) + 1
  IN  Event(file, seq, <<"end", seq>>, <<"end">>, IdBefore(file, seq), file.updated, 0)

ThreadEvents(file) ==
  <<StartEvent(file)>>
  \o [seq \in DOMAIN Retained(file) |-> ItemEvent(file, seq)]
  \o <<EndEvent(file)>>

-------------------------------------------------------------------------------
(* The event store, for one session of one producer *)

\* Faulty: the external id is not looked up.
SharingIdOrSeq(e) == {f \in events : f.id = e.id \/ f.seq = e.seq}

Sharing(e) == {f \in events : f.id = e.id \/ f.external = e.external \/ f.seq = e.seq}

\* Of several rows, the one with the event id counts, then the one with the external id.
Existing(e) ==
  LET sharing == Sharing(e)
      byId == {f \in sharing : f.id = e.id}
      byExternal == {f \in sharing : f.external = e.external}
  IN  IF byId # {} THEN byId ELSE IF byExternal # {} THEN byExternal ELSE sharing

Conflicts(e) == Existing(e) # {} /\ e \notin Existing(e)

Fresh(e) == Existing(e) = {}

-------------------------------------------------------------------------------
(* import_file *)

Start(p) ==
  /\ at[p] = Idle
  /\ \E x \in DOMAIN exports :
       at' = [at EXCEPT ![p] = [export |-> x, todo |-> ThreadEvents(exports[x]), singles |-> 0]]
  /\ UNCHANGED <<said, title, exports, events, imported>>

ChunkSize(p) == IF Len(at[p].todo) < BatchSize THEN Len(at[p].todo) ELSE BatchSize

Chunk(p) == {at[p].todo[i] : i \in 1 .. ChunkSize(p)}

\* After n events: what is left, of the chunk and of all.
Advance(p, n, singles) ==
  LET left == SubSeq(at[p].todo, n + 1, Len(at[p].todo))
  IN  /\ at' = [at EXCEPT ![p] = IF left = <<>> THEN Idle
                                 ELSE [@ EXCEPT !.todo = left, !.singles = singles]]
      /\ imported' = IF left = <<>> THEN imported \cup {at[p].export} ELSE imported

\* A chunk is one transaction; a conflict undoes it, and its events are tried one by one.
WriteChunk(p) ==
  /\ at[p].todo # <<>> /\ at[p].singles = 0
  /\ IF \E e \in Chunk(p) : Conflicts(e)
     THEN /\ at' = [at EXCEPT ![p].singles = ChunkSize(p)]
          /\ UNCHANGED <<events, imported>>
     ELSE /\ events' = events \cup {e \in Chunk(p) : Fresh(e)}
          /\ Advance(p, ChunkSize(p), 0)
  /\ UNCHANGED <<said, title, exports>>

AfterSingle(p) == Advance(p, 1, at[p].singles - 1)

WriteSingle(p) ==
  /\ at[p].singles > 0
  /\ LET e == Head(at[p].todo)
     IN  events' = IF Fresh(e) THEN events \cup {e} ELSE events
  /\ AfterSingle(p)
  /\ UNCHANGED <<said, title, exports>>

Die(p) ==
  /\ at[p] # Idle
  /\ at' = [at EXCEPT ![p] = Idle]
  /\ UNCHANGED <<said, title, exports, events, imported>>

Next ==
  \/ Say \/ Rename \/ ExportAll \/ ExportPage
  \/ \E p \in Importers : Start(p) \/ WriteChunk(p) \/ WriteSingle(p) \/ Die(p)

Spec == Init /\ [][Next]_vars

-------------------------------------------------------------------------------
(* Properties *)

Ids == {"start", "item", "end"} \X Nat

TypeOK ==
  /\ said \in 0 .. Len(Talk) /\ title \in Titles
  /\ exports \in Seq([items: Seq(1 .. said), order: {"oldest_first", "newest_first"},
                      title: Titles, updated: 0 .. said])
  /\ \A e \in events : e.id \in Ids /\ e.title \in Titles /\ e.seq + e.time + e.count \in Nat
  /\ \A p \in Importers : /\ at[p].export \in 0 .. Len(exports)
                          /\ at[p].singles \in 0 .. Len(at[p].todo)
  /\ imported \subseteq DOMAIN exports

ItemOf(e) == e.id[2]
ItemRows == {e \in events : e.id[1] = "item"}
Stored == {ItemOf(e) : e \in ItemRows}

\* "Idempotency by event id, producer/external id, and session sequence": exports of a thread that
\* grew or was renamed add no second start or end, no item twice, and no position twice.
OneOfEach ==
  \A e, f \in events : e.external = f.external \/ e.id = f.id \/ e.seq = f.seq => e = f

\* "session_id plus seq protects replayed session order": rows of a session, sorted by their
\* number, tell the talk in its order.
OrderIsChronological ==
  \A e, f \in ItemRows : e.seq < f.seq => ItemOf(e) < ItemOf(f)

\* "A changed identity should not roll back unrelated records": of an export that was imported to
\* its end, only an item can be missing at whose position an export had ended.
LostOnlyToAnEnd ==
  \A x \in imported :
    \A seq \in DOMAIN Retained(exports[x]) :
      \/ Retained(exports[x])[seq] \in Stored
      \/ \E e \in events : e.seq = seq /\ e.external = <<"end">>

\* An incremental import: what an export shows is stored once the export was imported.
ExportIsStored ==
  \A x \in imported : ToSet(Retained(exports[x])) \subseteq Stored
===============================================================================
