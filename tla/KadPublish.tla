----------------------------- MODULE KadPublish -----------------------------
(***************************************************************************)
(* The Kad (re)publishing of the shared library: one loop that every two   *)
(* seconds scans a window of the library and starts store searches for     *)
(* sources, keywords and notes, the tasks that run them, the clocks that   *)
(* keep each from being repeated before its interval, the rows that carry  *)
(* the clocks over a restart, and the per-file status the interface shows. *)
(*                                                                         *)
(* Time is abstract: a clock is fresh until Expire lets its interval pass. *)
(* The publish rank is a float score whose jitter outweighs hours of age,  *)
(* so the order of the files of one priority is arbitrary.                 *)
(***************************************************************************)
EXTENDS Naturals, Sequences, FiniteSets, FiniteSetsExt, SequencesExt

CONSTANTS
    Files, Keywords, Buddies, Absent,
    Names, TermsOf,               \* display names and the keywords of each, in order
    Priority,                     \* file -> upload priority
    Library,                      \* what is shared when the program starts
    Window,                       \* KAD_SHARED_FILE_PUBLISH_SCAN_BUDGET
    Batch,                        \* KAD_KEYWORD_PUBLISH_FILE_LIMIT
    Cap,                          \* kind -> in-flight cap
    MaxSearches, Reserved,        \* DHT search permits, and those publishing leaves free
    Contacts, Fanout, Chunks,     \* contacts a lookup may find, contacts used, packets each
    MaxEdits, MaxMoves, MaxExpiries, MaxRestarts, MaxForeign, MaxNet, \* bounds
    MaxFaults, MaxPanics          \* bounds: failed writes and loads of the rows, tasks that panic

VARIABLES
    catalog, name, note,          \* file -> "out", "part" or "complete"; its name; its comment
    edit,                         \* the comment being edited
    dirty,                        \* kad_notes_dirty
    net,                          \* [up, firewalled, udp, buddy]
    fresh,                        \* clocks of the schedule that have not run out
    toBuddy,                      \* last_source_buddy_ip
    deferred,                     \* load-deferred keywords
    cursor,
    rows,                         \* persisted clocks that have not run out
    status,                       \* SharedKadFilePublication
    loop,                         \* the tick in progress
    tasks, active,                \* publish tasks, and the loop's counts of them
    broken,                       \* counts and clocks of tasks that panicked, never taken back
    foreign,                      \* search permits that others hold
    admitted,                     \* history: the comment the last notes store was started with
    stored, again,                \* history: what was stored within its interval; repeats due
    early,                        \* history: a source or note was started before it was due
    spent                         \* bounds used

schedule == <<fresh, toBuddy, deferred, cursor>>
library == <<catalog, name, note, edit, dirty>>
history == <<admitted, stored, again, early>>
running == <<tasks, active, broken, foreign>>
vars == <<library, net, schedule, rows, status, loop, running, history, spent>>

Kinds == {"source", "keyword", "notes"}
\* A clock: the keyword is Absent for the source and notes kinds.
Clock(kind, f, k) == [kind |-> kind, file |-> f, keyword |-> k]
Source(f) == Clock("source", f, Absent)
Notes(f) == Clock("notes", f, Absent)
Keyword(f, k) == Clock("keyword", f, k)

Resting == [step |-> "rest", gate |-> Absent, scan |-> <<>>, best |-> Absent, start |-> 0,
            count |-> 0, seen |-> 0, permits |-> 0, used |-> {}, words |-> {}]
Unseen == [phase |-> "none", success |-> FALSE]
NoEdit == [step |-> "none", file |-> Absent]
NoneBroken == [count |-> [k \in Kinds |-> 0], clocks |-> {}]
Unbounded == [edits |-> 0, moves |-> 0, expiries |-> 0, restarts |-> 0, nets |-> 0, faults |-> 0,
              panics |-> 0]
Spend(what, max) == spent[what] < max /\ spent' = [spent EXCEPT ![what] = @ + 1]
\* The writes and deletes of rows that failed; such a failure is only logged.
WritesFail(lost) == IF lost = {} THEN UNCHANGED spent ELSE Spend("faults", MaxFaults)

Init ==
    /\ catalog = Library /\ name \in [Files -> Names] /\ note = [f \in Files |-> 0]
    /\ edit = NoEdit /\ dirty = {}
    /\ net = [up |-> TRUE, firewalled |-> FALSE, udp |-> FALSE, buddy |-> Absent]
    /\ fresh = {} /\ toBuddy = [f \in Files |-> Absent]
    /\ deferred = {} /\ cursor = 0 /\ rows = {}
    /\ status = [c \in {Source(f) : f \in Files}
                       \union {Keyword(f, k) : f \in Files, k \in Keywords} |-> Unseen]
    /\ loop = Resting /\ tasks = {} /\ active = [k \in Kinds |-> 0]
    /\ broken = NoneBroken /\ foreign = 0
    /\ admitted = [f \in Files |-> 0] /\ stored = {} /\ again = {} /\ early = FALSE
    /\ spent = Unbounded

-----------------------------------------------------------------------------
(* The schedule. *)

SourceDue(f, buddy) ==
    \/ Source(f) \notin fresh
    \/ buddy # Absent /\ toBuddy[f] # buddy
NotesDue(f) == Notes(f) \notin fresh

\* sync_keyword_terms: a renamed file keeps only the clocks of the words it still has.
Synced(f, words) == {c \in fresh : c.kind = "keyword" /\ c.file = f => c.keyword \in words}

AllClocks == {Source(f) : f \in Files} \union {Notes(f) : f \in Files}

\* kad_source_publish_eligible, kad_keyword_publish_eligible
Publishable == {f \in Files : catalog[f] # "out"}
Complete(f) == catalog[f] = "complete"
Words(f) == TermsOf[name[f]]

\* kad_publish_allowed
Allowed(n) == n.up /\ ~(n.firewalled /\ n.buddy = Absent /\ ~n.udp)

\* The branch a source is published under; Absent: none usable right now.
Reachability(n, buddy) ==
    CASE ~n.firewalled -> "open"
      [] n.firewalled /\ n.udp -> "udp"
      [] OTHER -> buddy

\* The ranked orders of a set of files: by priority, otherwise arbitrary.
Orders(files) ==
    {s \in SetToSeqs(files) : \A i, j \in DOMAIN s : i < j => Priority[s[i]] >= Priority[s[j]]}

-----------------------------------------------------------------------------
(* One tick of the loop. *)

\* Mutant: the flag of an edited comment is taken without making its note due.
BeginTickForgetful ==
    /\ loop.step = "rest" /\ net.up
    /\ dirty' = {}
    /\ fresh' = {c \in fresh : c.file \in Publishable}
    /\ loop' = IF Publishable = {} THEN Resting ELSE [Resting EXCEPT !.step = "gate"]
    /\ UNCHANGED <<catalog, name, note, edit, net, toBuddy, status, again, deferred, cursor, rows,
                   running, admitted, stored, early, spent>>

\* drain_kad_notes_dirty: the notes whose clocks are reset.
NotesReset == {Notes(f) : f \in dirty}

\* Edited notes are due again, and what is no longer publishable is forgotten whether or
\* not this tick can publish.
BeginTick ==
    /\ loop.step = "rest" /\ net.up
    /\ dirty' = {}
    /\ fresh' = {c \in fresh : c.file \in Publishable /\ c \notin NotesReset}
    /\ toBuddy' = [f \in Files |-> IF f \in Publishable THEN toBuddy[f] ELSE Absent]
    /\ status' = [c \in DOMAIN status |-> IF c.file \in Publishable THEN status[c] ELSE Unseen]
    /\ again' = again \union NotesReset
                 \union {c \in AllClocks : c.file \notin Publishable}
    /\ loop' = IF Publishable = {} THEN Resting ELSE [Resting EXCEPT !.step = "gate"]
    /\ UNCHANGED <<catalog, name, note, edit, net, deferred, cursor, rows, running,
                   admitted, stored, early, spent>>

\* kad_publish_gate_input; the buddy's endpoint is read once more after it.
Gate ==
    /\ loop.step = "gate"
    /\ loop' = IF Allowed(net) THEN [loop EXCEPT !.step = "reach", !.gate = net] ELSE Resting
    /\ UNCHANGED <<library, net, schedule, rows, status, running, history, spent>>

Reach ==
    /\ loop.step = "reach"
    /\ loop' = [loop EXCEPT !.step = "drain", !.gate = Reachability(loop.gate, net.buddy)]
    /\ UNCHANGED <<library, net, schedule, rows, status, running, history, spent>>

\* What an outcome does to the status of its clocks: finished, or busy as if never begun.
Finished(s, ok) == [phase |-> IF ok THEN "published" ELSE "failed", success |-> ok \/ s.success]
Busied(s) == IF s.success THEN [s EXCEPT !.phase = "published"] ELSE Unseen
Started(s) == [s EXCEPT !.phase = "publishing"]
\* The statuses, with those of new replaced; a note's clock has none.
Shown(new) == [c \in DOMAIN status |-> IF c \in DOMAIN new THEN new[c] ELSE status[c]]
Shows(clocks) == clocks \intersect DOMAIN status

\* Busy (no search was created): the clock is due again, and the persisted rows of the
\* file's kind are all dropped, file by file.
RolledBack(t) ==
    /\ fresh' = fresh \ t.clocks
    /\ toBuddy' = [f \in Files |-> IF Source(f) \in t.clocks THEN Absent ELSE toBuddy[f]]
    /\ \E lost \in SUBSET {c.file : c \in t.clocks} :
         /\ WritesFail(lost)
         /\ rows' = {c \in rows : \A d \in t.clocks :
                                    d.kind = c.kind /\ d.file = c.file => c.file \in lost}
    /\ status' = Shown([c \in Shows(t.clocks) |-> Busied(status[c])])

\* A finished task is taken in.
Drain(t) ==
    /\ loop.step = "drain" /\ t.stage = "done"
    /\ tasks' = tasks \ {t}
    /\ active' = [active EXCEPT ![t.kind] = IF @ = 0 THEN 0 ELSE @ - 1]
    /\ IF t.result = "busy"
       THEN RolledBack(t)
       ELSE /\ status' = Shown([c \in Shows(t.clocks) |->
                               Finished(status[c], t.result = "stored" /\ t.acked > 0)])
            /\ UNCHANGED <<fresh, toBuddy, rows, spent>>
    /\ deferred' = IF t.kind = "keyword" /\ t.hot THEN deferred \union {t.target} ELSE deferred
    /\ again' = IF t.result = "busy" THEN again \union (t.clocks \intersect AllClocks) ELSE again
    /\ UNCHANGED <<library, net, cursor, loop, broken, foreign, admitted, stored, early>>

\* A task that panicked fails to join: the loop does not know what it was, so its kind
\* stays counted and its clocks and status stay as they were.
JoinFails(t) ==
    /\ loop.step = "drain" /\ t.stage = "panicked"
    /\ tasks' = tasks \ {t}
    /\ broken' = [count |-> [broken.count EXCEPT ![t.kind] = @ + 1],
                  clocks |-> broken.clocks \union t.clocks]
    /\ UNCHANGED <<library, net, schedule, rows, status, loop, active, foreign, history, spent>>

\* kad_shared_file_publish_in_flight_budget_for
Budget == Max({1, Min({MaxSearches - Reserved, Cap["source"] + Cap["keyword"] + Cap["notes"]})})
Searching == {t \in tasks : t.stage = "search"}
Permits == MaxSearches - foreign - Cardinality(Searching)

\* The window of the ranked library from the cursor on, as the catalog is now.
Candidates(order, at) ==
    LET n == Len(order)
    IN [i \in 1 .. Min({n, Window}) |->
          LET f == order[1 + ((at + i - 1) % n)]
          IN [file |-> f, note |-> note[f], whole |-> Complete(f), words |-> Words(f)]]

\* The files of which the best ranked one may have its note go out.
NotesCandidates == {f \in Publishable : note[f] > 0 /\ NotesDue(f)}

\* No permit and no task, or too many tasks: the tick is over.
NoRoom == (Permits = 0 /\ tasks = {}) \/ Cardinality(tasks) >= Budget

Build ==
    /\ loop.step = "drain" /\ \A t \in tasks : t.stage \notin {"done", "panicked"}
    /\ IF NoRoom
       THEN loop' = Resting
       ELSE LET n == Cardinality(Publishable)
                at == IF n = 0 THEN 0 ELSE cursor % n
            IN \E order \in Orders(Publishable), notes \in Orders(NotesCandidates) :
                 loop' = [loop EXCEPT
                    !.step = "scan", !.start = at, !.count = n, !.permits = Permits,
                    !.best = IF notes = <<>> THEN Absent ELSE notes[1],
                    !.scan = Candidates(order, at)]
    /\ UNCHANGED <<library, net, schedule, rows, status, running, history, spent>>

Task(kind, target, clocks, to) ==
    [kind |-> kind, target |-> target, clocks |-> clocks, to |-> to, stage |-> "new",
     n |-> CHOOSE n \in 0 .. Cap[kind] : \A t \in tasks : t.kind = kind => t.n # n,
     result |-> "none", acked |-> 0, hot |-> FALSE]

\* One start of each kind per tick, within the permits, the budget and the kind's cap.
CanStart(kind, inFlight, permits) ==
    /\ kind \notin loop.used /\ permits > 0
    /\ Cardinality(inFlight) < Budget /\ active[kind] < Cap[kind]

\* The catalog's complete files with the keyword, from the triggering file on.
Batches(f, k) ==
    LET all == {g \in Files : Complete(g) /\ k \in Range(Words(g))}
    IN {b \in SUBSET all : /\ Cardinality(b) = Min({Cardinality(all), Batch})
                           /\ f \in all => f \in b}

\* What is due for a file of the window: its source, its first word whose clock has run
\* out and that no store of this tick has, its note if it is the one picked.
SourceStarts(f, buddy) ==
    loop.gate # Absent /\ SourceDue(f, buddy) /\ CanStart("source", tasks, loop.permits)
DueWord(c, synced) ==
    LET due == {i \in DOMAIN c.words : /\ c.whole /\ c.words[i] \notin loop.words \union deferred
                                       /\ Keyword(c.file, c.words[i]) \notin synced}
    IN IF due = {} THEN Absent ELSE c.words[Min(due)]
NoteStarts(c, inFlight, permits) ==
    /\ c.note > 0 /\ NotesDue(c.file) /\ loop.best = c.file
    /\ CanStart("notes", inFlight, permits)

\* A clock is advanced, and its row written, when the store is started.
MarkStarted(synced, began) ==
    /\ fresh' = synced \union began
    /\ \E lost \in SUBSET began : WritesFail(lost) /\ rows' = rows \union (began \ lost)

\* One file of the window: its source first, then a keyword, then its note.
Inspect ==
    /\ loop.step = "scan" /\ loop.scan # <<>>
    /\ LET c == loop.scan[1]  f == c.file
           synced == Synced(f, Range(c.words))
           buddy == IF loop.gate \in Buddies THEN loop.gate ELSE Absent
           word == DueWord(c, synced)
           src == SourceStarts(f, buddy)
           tasks1 == IF src THEN tasks \union {Task("source", f, {Source(f)}, buddy)} ELSE tasks
           permits1 == IF src THEN loop.permits - 1 ELSE loop.permits
       IN \E batch \in IF word # Absent /\ CanStart("keyword", tasks1, permits1)
                       THEN Batches(f, word) ELSE {{}} :
          LET kw == {Keyword(g, word) : g \in batch}
              tasks2 == IF kw = {} THEN tasks1
                        ELSE tasks1 \union {Task("keyword", word, kw, Absent)}
              permits2 == IF kw = {} THEN permits1 ELSE permits1 - 1
              nts == NoteStarts(c, tasks2, permits2)
              began == (IF src THEN {Source(f)} ELSE {}) \union kw
                       \union (IF nts THEN {Notes(f)} ELSE {})
          IN /\ MarkStarted(synced, began)
             /\ toBuddy' = IF src THEN [toBuddy EXCEPT ![f] = buddy] ELSE toBuddy
             /\ admitted' = IF nts THEN [admitted EXCEPT ![f] = c.note] ELSE admitted
             /\ status' = Shown([d \in Shows(began) |-> Started(status[d])])
             /\ broken' = [broken EXCEPT !.clocks = @ \ began]
             /\ early' = (early \/ \E d \in began : /\ d \notin again
                                                   /\ [clock |-> d, to |-> IF d.kind = "source" THEN buddy
                                                                        ELSE Absent] \in stored)
             /\ again' = again \ began
             /\ tasks' = IF nts THEN tasks2 \union {Task("notes", f, {Notes(f)}, Absent)}
                         ELSE tasks2
             /\ active' = [k \in Kinds |->
                             active[k] + Cardinality({t \in tasks' \ tasks : t.kind = k})]
             /\ loop' = [loop EXCEPT
                   !.scan = Tail(@), !.seen = @ + 1,
                   !.permits = IF nts THEN permits2 - 1 ELSE permits2,
                   !.used = @ \union {t.kind : t \in tasks' \ tasks},
                   !.words = IF kw = {} THEN @ ELSE @ \union {word}]
    /\ UNCHANGED <<library, net, deferred, cursor, foreign, stored>>

EndTick ==
    /\ loop.step = "scan" /\ loop.scan = <<>>
    /\ cursor' = IF loop.count = 0 THEN 0 ELSE (loop.start + loop.seen) % loop.count
    /\ loop' = Resting
    /\ UNCHANGED <<library, net, fresh, toBuddy, deferred, rows, status, running,
                   history, spent>>

-----------------------------------------------------------------------------
(* A publish task: one store search. *)

\* A permit, and no other search for the same target: a source and a note of one file
\* have the same target.  Other searches may hold the target too.
Acquire(t) ==
    /\ t.stage = "new"
    /\ LET taken == Permits = 0 \/ \E u \in Searching : u.target = t.target
       IN \/ /\ taken \/ foreign > 0
             /\ tasks' = (tasks \ {t}) \union {[t EXCEPT !.stage = "done", !.result = "busy"]}
          \/ /\ ~taken
             /\ tasks' = (tasks \ {t}) \union {[t EXCEPT !.stage = "search"]}
    /\ UNCHANGED <<library, net, schedule, rows, status, loop, active, broken, foreign, history,
                   spent>>

\* select_publish_contacts: those close enough, at most Fanout, but at least one allowed.
Selected(near) == Min({near, IF Fanout < 1 THEN 1 ELSE Fanout})

\* One packet train per contact: the raw answers are divided by the packets of a train.
AckedContacts(answers) ==
    Cardinality({a \in DOMAIN answers : answers[a] # "lost"}) \div Chunks

\* The lookup finds no contact, or none close enough, or the whole search times out; else
\* the packets go out and each is answered, answered with a high load, or lost.
Ends(t, stage, result, acked, hot, sent) ==
    /\ tasks' = (tasks \ {t}) \union {[t EXCEPT !.stage = stage, !.result = result,
                                                !.acked = acked, !.hot = hot]}
    /\ stored' = IF sent /\ t.kind # "keyword"
                 THEN stored \union {[clock |-> c, to |-> t.to] : c \in t.clocks} ELSE stored
    /\ UNCHANGED <<library, net, schedule, rows, status, loop, active, broken, foreign, admitted,
                   again, early>>
Concludes(t, result, acked, hot, sent) == Ends(t, "done", result, acked, hot, sent)

Store(t) ==
    /\ t.stage = "search" /\ UNCHANGED spent
    /\ \/ Concludes(t, "failed", 0, FALSE, FALSE)
       \/ \E sent \in BOOLEAN : Concludes(t, "timeout", 0, FALSE, sent)
       \/ \E near \in 1 .. Contacts :
            LET trains == (1 .. Selected(near)) \X (1 .. IF t.kind = "keyword" THEN Chunks ELSE 1)
            IN \E answers \in [trains -> {"fine", "loaded", "lost"}] :
                 Concludes(t, "stored",
                           IF t.kind = "keyword" THEN AckedContacts(answers)
                           ELSE Cardinality({a \in trains : answers[a] # "lost"}),
                           \E a \in trains : answers[a] = "loaded", TRUE)

\* The task panics in its search, with or without its packets sent.
Panic(t) ==
    /\ t.stage = "search" /\ Spend("panics", MaxPanics)
    /\ \E sent \in BOOLEAN : Ends(t, "panicked", "none", 0, FALSE, sent)

-----------------------------------------------------------------------------
(* The library, the network and time. *)

\* A file comes, is completed, goes, or is renamed.
MoveFile(f) ==
    /\ Spend("moves", MaxMoves)
    /\ \/ /\ \E to \in {"out", "part", "complete"} \ {catalog[f]} :
               /\ catalog[f] = "complete" => to = "out"
               /\ catalog' = [catalog EXCEPT ![f] = to]
          /\ UNCHANGED name
       \/ \E n \in Names \ {name[f]} : name' = [name EXCEPT ![f] = n] /\ UNCHANGED catalog
    /\ UNCHANGED <<note, edit, dirty, net, schedule, rows, status, loop, running,
                   history>>

\* update_shared_file: the comment, then its row, then the flag for the loop.
EditNote(f) ==
    /\ edit.step = "none" /\ Spend("edits", MaxEdits)
    /\ note' = [note EXCEPT ![f] = @ + 1]
    /\ edit' = [step |-> "row", file |-> f]
    /\ UNCHANGED <<catalog, name, dirty, net, schedule, rows, status, loop, running, history>>

EditRow ==
    /\ edit.step = "row"
    /\ \E lost \in SUBSET {Notes(edit.file)} :
         WritesFail(lost) /\ rows' = rows \ ({Notes(edit.file)} \ lost)
    /\ edit' = [edit EXCEPT !.step = "flag"]
    /\ again' = again \union {Notes(edit.file)}
    /\ UNCHANGED <<catalog, name, note, dirty, net, schedule, status, loop, running,
                   admitted, stored, early>>

EditFlag ==
    /\ edit.step = "flag"
    /\ dirty' = dirty \union {edit.file} /\ edit' = NoEdit
    /\ UNCHANGED <<catalog, name, note, net, schedule, rows, status, loop, running,
                   history, spent>>

NetChanges ==
    /\ Spend("nets", MaxNet)
    /\ net' \in [up : BOOLEAN, firewalled : BOOLEAN, udp : BOOLEAN, buddy : Buddies \union {Absent}]
    /\ net' # net
    /\ UNCHANGED <<library, schedule, rows, status, loop, running, history>>

ForeignSearch ==
    /\ \/ foreign > 0 /\ foreign' = foreign - 1
       \/ foreign < MaxForeign /\ Permits > 0 /\ foreign' = foreign + 1
    /\ UNCHANGED <<library, net, schedule, rows, status, loop, tasks, active, broken, history,
                   spent>>

\* The interval of a clock, or of a load deferral, passes; it outlasts a search by far.
Expire ==
    /\ Spend("expiries", MaxExpiries)
    /\ \/ \E c \in fresh \union rows : /\ \A t \in tasks : c \notin t.clocks
                                       /\ fresh' = fresh \ {c} /\ rows' = rows \ {c}
                                       /\ stored' = {d \in stored : d.clock # c}
                                       /\ UNCHANGED deferred
       \/ \E k \in deferred : deferred' = deferred \ {k} /\ UNCHANGED <<fresh, rows, stored>>
    /\ UNCHANGED <<library, net, toBuddy, cursor, status, loop, running, admitted,
                   again, early>>

\* The process dies and starts again: the clocks come back from the rows, without the
\* buddies, the deferrals and the flags; when the rows cannot be read, every clock is due.
Restart ==
    /\ spent.restarts < MaxRestarts
    /\ \/ fresh' = rows /\ spent' = [spent EXCEPT !.restarts = @ + 1]
       \/ /\ fresh' = {} /\ spent.faults < MaxFaults
          /\ spent' = [spent EXCEPT !.restarts = @ + 1, !.faults = @ + 1]
    /\ toBuddy' = [f \in Files |-> Absent] /\ deferred' = {} /\ cursor' = 0
    /\ dirty' = {} /\ edit' = NoEdit
    /\ status' = [c \in DOMAIN status |-> Unseen]
    /\ loop' = Resting /\ tasks' = {} /\ active' = [k \in Kinds |-> 0]
    /\ broken' = NoneBroken /\ foreign' = 0
    /\ again' = again \union {d.clock : d \in {e \in stored : e.to # Absent}}
    /\ UNCHANGED <<catalog, name, note, net, rows, admitted, stored, early>>

-----------------------------------------------------------------------------
Tick ==
    \/ BeginTick \/ Gate \/ Reach \/ Build \/ Inspect \/ EndTick
    \/ \E t \in tasks : Drain(t) \/ JoinFails(t)
Environment ==
    \/ \E f \in Files : MoveFile(f) \/ EditNote(f)
    \/ EditRow \/ EditFlag \/ NetChanges \/ ForeignSearch \/ Expire \/ Restart
Next == Tick \/ (\E t \in tasks : Acquire(t) \/ Store(t) \/ Panic(t)) \/ Environment

Spec == Init /\ [][Next]_vars

-----------------------------------------------------------------------------
(* Properties. *)

TypeOK ==
    /\ catalog \in [Files -> {"out", "part", "complete"}]
    /\ loop.step \in {"rest", "gate", "reach", "drain", "scan"}
    /\ \A t \in tasks : t.kind \in Kinds /\ t.stage \in {"new", "search", "done", "panicked"}

\* The loop's counts are the tasks it has not taken in and those that panicked; each kind
\* stays within its cap, and all tasks within the budget that leaves the user a permit.
StartsAccounted ==
    /\ \A k \in Kinds :
         /\ active[k] = Cardinality({t \in tasks : t.kind = k}) + broken.count[k]
         /\ active[k] <= Cap[k]
    /\ Cardinality(tasks) <= Budget
    /\ Permits >= 0

\* While the rows can be written and read, a source or a note goes out again only when its
\* interval has passed, its comment was edited, the buddy it names may have changed, it had
\* found no permit, or the file had left the library.
NoEarlyRepeat == spent.faults = 0 => ~early

\* While the rows can be written and deleted: a clock that runs has its row for the next
\* start of the program, unless the comment is being edited; and the row of a source stands
\* for a clock that runs, so that a store that found no permit is not held back by a restart,
\* unless its file has left the library.
ClocksBacked ==
    spent.faults = 0 =>
        /\ \A c \in fresh : c.kind # "keyword" =>
             \/ c \in rows
             \/ c.kind = "notes" /\ (c.file \in dirty \/ edit.file = c.file)
        /\ spent.moves = 0 => \A f \in Files : Source(f) \in rows => Source(f) \in fresh

\* As long as the program runs, the comment a file carries is never held back by the clock
\* of another one: the note the clock stands for is the current one, or the loop still has
\* to be told.
EditedNoteGoesOut ==
    spent.restarts = 0 =>
        \A f \in Files : Notes(f) \in fresh =>
            admitted[f] = note[f] \/ f \in dirty \/ edit.file = f

\* What the interface shows: a store in progress is one that a task still runs, or whose
\* task panicked.
StatusTruthful ==
    \A c \in DOMAIN status : status[c].phase = "publishing" =>
        c \in broken.clocks \/ \E t \in tasks : c \in t.clocks

Paced ==
    TypeOK /\ StartsAccounted /\ NoEarlyRepeat /\ ClocksBacked /\ EditedNoteGoesOut /\ StatusTruthful
====
