----------------------------- MODULE CacheFile ------------------------------
(***************************************************************************)
(* The file behind the result cache, table by table: src/cache.rs opens    *)
(* it, brings an older file up to date, registers the instances, interns   *)
(* the status names and writes rows that refer to both by number;          *)
(* src/db.rs reads it with four queries to export it.  Every statement     *)
(* commits by itself, so that tuners which share the file and an export    *)
(* interleave between any two of them, and a tuner may end between any two *)
(* (a statement that fails, a busy database, ends it the same way).        *)
(*                                                                         *)
(* What a row says about runtimes and cutoffs is Cache's subject; here the *)
(* question is whether a row can still be read: which instance, which      *)
(* status, which configuration it is about.                                *)
(***************************************************************************)
EXTENDS Naturals, Sequences

CONSTANTS
  Tuners,     \* the tuner processes that use the file
  Lists,      \* the instance list of each
  Paths,      \* instance paths
  Hashes,     \* strategy hashes, one per active configuration
  Statuses,   \* status names, but for UNKNOWN, which is never put
  Solved,     \* those in SOLVED_STATUSES
  MaxSubmits  \* bound of the model: submits

ASSUME ListsAssumption == Lists \in [Tuners -> Seq(Paths)]

ASSUME StatusesAssumption == Solved \subseteq Statuses /\ "none" \notin Statuses

(* What Cache::open makes sure of, a statement each: four tables, and the  *)
(* row of statuses that has the number 0.                                  *)
Schema == <<"instances", "statuses", "UNKNOWN", "results", "strategies">>

VARIABLES
  tables,     \* the parts of the schema there are
  runhashes,  \* whether results has the column runhash
  compatible, \* whether it has the columns it always had to have
  instances,  \* the paths, in the order of their ids
  statuses,   \* the names, in the order of their ids; 0 is UNKNOWN
  results,    \* the rows: [hash, instance, status, runhash]
  strategies, \* the hashes with a configuration
  at,         \* where each tuner stands
  step,       \* how far it is in a loop over tables or paths
  ids,        \* its map of instance ids, 0 where it has none
  interned,   \* its status_cache, 0 where it has none
  submitted,  \* the hashes it has submitted
  todo,       \* the result it is putting
  submits,    \* submits so far
  ex,         \* where the export stands
  files,      \* what it has written
  told,       \* history: the status a tuner last put for a hash and a path
  old         \* history: hashes of rows older than the strategies table

schemaVars == <<tables, runhashes, compatible>>
fileVars  == <<schemaVars, instances, statuses, results, strategies>>
tunerVars == <<at, step, ids, interned, submitted, todo, submits>>
exportVars == <<ex, files>>
history == <<told, old>>
vars == <<fileVars, tunerVars, exportVars, history>>

NoIds == [q \in Paths |-> 0]
NoStatuses == [s \in Statuses |-> 0]
NoResult == [hash |-> "none", path |-> "none", status |-> "none", runhash |-> FALSE]

InSeq(seq, x) == \E i \in 1 .. Len(seq) : seq[i] = x

(* The id of a path or a name that is there.                               *)
IdOf(seq, x) == CHOOSE i \in 1 .. Len(seq) : seq[i] = x

(* INSERT OR IGNORE: the next number is one more than the largest.         *)
Insert(seq, x) == IF InSeq(seq, x) THEN seq ELSE Append(seq, x)

(* An older version's file, with the row of a strategy nobody recorded.    *)
OldFile(h, q, s, t) ==
  /\ tables = {"instances", "statuses", "UNKNOWN", "results"} \cup t
  /\ runhashes = FALSE /\ compatible = TRUE
  /\ instances = <<q>> /\ statuses = <<s>>
  /\ results = {[hash |-> h, instance |-> 1, status |-> 1, runhash |-> FALSE]}
  /\ old = {h}
  /\ told = [k \in Hashes \X Paths |-> IF k = <<h, q>> THEN s ELSE "none"]

(* No file yet; or one that no version since can use, rows and all.        *)
EmptyFile(t) ==
  /\ tables = t /\ compatible = (t = {}) /\ runhashes = FALSE
  /\ instances = << >> /\ statuses = << >> /\ results = {} /\ old = {}
  /\ told = [k \in Hashes \X Paths |-> "none"]

Init ==
  /\ \/ \E t \in {{}, {"instances", "results"}} : EmptyFile(t)
     \/ \E h \in Hashes, q \in Paths, s \in Statuses, t \in {{}, {"strategies"}} :
          OldFile(h, q, s, t)
  /\ strategies = {}
  /\ at = [p \in Tuners |-> "off"] /\ step = [p \in Tuners |-> 1]
  /\ ids = [p \in Tuners |-> NoIds] /\ interned = [p \in Tuners |-> NoStatuses]
  /\ submitted = [p \in Tuners |-> {}] /\ todo = [p \in Tuners |-> NoResult]
  /\ submits = 0
  /\ ex = "off"
  /\ files = [solved |-> {}, status |-> {}, confs |-> {}, counts |-> {}]

Goto(p, l, i) == at' = [at EXCEPT ![p] = l] /\ step' = [step EXCEPT ![p] = i]

-----------------------------------------------------------------------------
(* Cache::open                                                             *)

Open(p) ==
  /\ at[p] = "off"
  /\ Goto(p, "create", 1)
  /\ UNCHANGED <<fileVars, ids, interned, submitted, todo, submits, exportVars, history>>

(* CREATE TABLE IF NOT EXISTS, or INSERT OR IGNORE                         *)
Create(p) ==
  /\ at[p] = "create"
  /\ tables' = tables \cup {Schema[step[p]]}
  /\ runhashes' = (runhashes \/ (Schema[step[p]] = "results" /\ "results" \notin tables))
  /\ IF step[p] < Len(Schema) THEN Goto(p, "create", step[p] + 1) ELSE Goto(p, "columns", 1)
  /\ UNCHANGED <<compatible, instances, statuses, results, strategies, ids, interned, submitted,
                 todo, submits, exportVars, history>>

(* A table without status_id or cutoff is refused.                         *)
ReadColumns(p) ==
  /\ at[p] = "columns"
  /\ Goto(p, IF ~compatible THEN "off" ELSE IF runhashes THEN "load" ELSE "alter", 1)
  /\ UNCHANGED <<fileVars, ids, interned, submitted, todo, submits, exportVars, history>>

(* ALTER TABLE fails when another tuner has added the column meanwhile.    *)
Alter(p) ==
  /\ at[p] = "alter"
  /\ runhashes' = TRUE
  /\ Goto(p, IF runhashes THEN "off" ELSE "load", 1)
  /\ UNCHANGED <<tables, compatible, instances, statuses, results, strategies, ids,
                 interned, submitted, todo, submits, exportVars, history>>

-----------------------------------------------------------------------------
(* load_instances                                                          *)

LoadInsert(p) ==
  /\ at[p] = "load" /\ step[p] <= Len(Lists[p])
  /\ instances' = Insert(instances, Lists[p][step[p]])
  /\ Goto(p, "load", step[p] + 1)
  /\ UNCHANGED <<schemaVars, statuses, results, strategies, ids, interned,
                 submitted, todo, submits, exportVars, history>>

LoadSelect(p) ==
  /\ at[p] = "load" /\ step[p] > Len(Lists[p])
  /\ ids' = [ids EXCEPT ![p] =
               [q \in Paths |-> IF InSeq(Lists[p], q) /\ InSeq(instances, q)
                                THEN IdOf(instances, q) ELSE 0]]
  /\ Goto(p, "idle", 1)
  /\ UNCHANGED <<fileVars, interned, submitted, todo, submits, exportVars, history>>

-----------------------------------------------------------------------------
(* submit records the configuration before it looks up or offers anything. *)

PutStrategy(p, h) ==
  /\ at[p] = "idle" /\ submits < MaxSubmits
  /\ strategies' = strategies \cup {h}
  /\ submitted' = [submitted EXCEPT ![p] = @ \cup {h}]
  /\ submits' = submits + 1
  /\ UNCHANGED <<schemaVars, instances, statuses, results, at, step, ids,
                 interned, todo, exportVars, history>>

(* A result has come, for an instance of the tuner's list; a wrapper gives *)
(* a runhash, if it can, to what it has solved.                            *)
Report(p, h, q, s, r) ==
  /\ at[p] = "idle" /\ h \in submitted[p] /\ ids[p][q] # 0
  /\ r => s \in Solved
  /\ todo' = [todo EXCEPT ![p] = [hash |-> h, path |-> q, status |-> s, runhash |-> r]]
  /\ Goto(p, IF interned[p][s] # 0 THEN "read" ELSE "intern", 1)
  /\ UNCHANGED <<fileVars, ids, interned, submitted, submits, exportVars, history>>

-----------------------------------------------------------------------------
(* put                                                                     *)

InternInsert(p) ==
  /\ at[p] = "intern"
  /\ statuses' = Insert(statuses, todo[p].status)
  /\ Goto(p, "interned", 1)
  /\ UNCHANGED <<schemaVars, instances, results, strategies, ids, interned,
                 submitted, todo, submits, exportVars, history>>

(* Mutant: the id is the last row's, whether the INSERT was ignored or not. *)
InternLast(p) ==
  /\ at[p] = "interned"
  /\ interned' = [interned EXCEPT ![p][todo[p].status] = Len(statuses)]
  /\ Goto(p, "read", 1)
  /\ UNCHANGED <<fileVars, ids, submitted, todo, submits, exportVars, history>>

InternSelect(p) ==
  /\ at[p] = "interned"
  /\ interned' = [interned EXCEPT ![p][todo[p].status] = IdOf(statuses, todo[p].status)]
  /\ Goto(p, "read", 1)
  /\ UNCHANGED <<fileVars, ids, submitted, todo, submits, exportVars, history>>

(* The rows of the result's key.                                           *)
Present(p) == {r \in results : r.hash = todo[p].hash /\ r.instance = ids[p][todo[p].path]}

(* A timeout makes way for anything else; whether it does for a timeout is *)
(* left open here, as cutoffs are.                                         *)
PutReads(p) ==
  /\ at[p] = "read"
  /\ \E write \in BOOLEAN :
       /\ Present(p) = {} => write
       /\ (\E r \in Present(p) : statuses[r.status] # "timeout") => ~write
       /\ (\E r \in Present(p) : statuses[r.status] = "timeout")
            /\ todo[p].status # "timeout" => write
       /\ Goto(p, IF write THEN "write" ELSE "idle", 1)
  /\ UNCHANGED <<fileVars, ids, interned, submitted, todo, submits, exportVars, history>>

(* INSERT OR REPLACE                                                       *)
PutWrites(p) ==
  /\ at[p] = "write"
  /\ results' = (results \ Present(p)) \cup
                  {[hash |-> todo[p].hash, instance |-> ids[p][todo[p].path],
                    status |-> interned[p][todo[p].status], runhash |-> todo[p].runhash]}
  /\ told' = [told EXCEPT ![<<todo[p].hash, todo[p].path>>] = todo[p].status]
  /\ Goto(p, "idle", 1)
  /\ UNCHANGED <<schemaVars, instances, statuses, strategies, ids, interned,
                 submitted, todo, submits, exportVars, old>>

(* The tuner ends, is killed, or fails: its maps go with it.               *)
Exit(p) ==
  /\ at[p] # "off"
  /\ Goto(p, "off", 1)
  /\ ids' = [ids EXCEPT ![p] = NoIds]
  /\ interned' = [interned EXCEPT ![p] = NoStatuses]
  /\ submitted' = [submitted EXCEPT ![p] = {}]
  /\ todo' = [todo EXCEPT ![p] = NoResult]
  /\ UNCHANGED <<fileVars, submits, exportVars, history>>

Tuner(p) ==
  \/ Open(p) \/ Create(p) \/ ReadColumns(p) \/ Alter(p)
  \/ LoadInsert(p) \/ LoadSelect(p)
  \/ \E h \in Hashes : PutStrategy(p, h)
  \/ \E h \in Hashes, q \in Paths, s \in Statuses, r \in BOOLEAN : Report(p, h, q, s, r)
  \/ InternInsert(p) \/ InternSelect(p) \/ PutReads(p) \/ PutWrites(p) \/ Exit(p)

-----------------------------------------------------------------------------
(* db::export_all: four queries, each over the file as it is by then.      *)

StatusName(i) == IF i = 0 THEN "UNKNOWN" ELSE statuses[i]

(* The rows that join: a row whose ids lead nowhere is not read at all.    *)
Joined ==
  {r \in results :
     /\ r.instance \in 1 .. Len(instances)
     /\ r.status \in 1 .. Len(statuses) \/ (r.status = 0 /\ "UNKNOWN" \in tables)}

Lines ==
  {[hash |-> r.hash, path |-> instances[r.instance], status |-> StatusName(r.status)] :
     r \in Joined}

Exports(from, to, needed) ==
  /\ ex = from
  /\ ex' = IF needed THEN to ELSE "failed"
  /\ UNCHANGED <<fileVars, tunerVars, history>>

Readable == {"instances", "statuses", "results"} \subseteq tables /\ compatible

ExportSolved(from, to) ==
  /\ Exports(from, to, Readable)
  /\ files' = [files EXCEPT !.solved = {l \in Lines : l.status \in Solved}]

(* A file without the column fails the query, with solved/ written.        *)
ExportStatus(from, to) ==
  /\ Exports(from, to, Readable /\ runhashes)
  /\ files' = IF runhashes THEN [files EXCEPT !.status = Lines] ELSE files

(* Without the table it says so and goes on.                               *)
ExportConfs(from, to) ==
  /\ Exports(from, to, TRUE)
  /\ files' = [files EXCEPT !.confs = strategies]

(* How many rows a hash has, for those with a runhash.                     *)
ExportRunhashes(from, to) ==
  /\ Exports(from, to, TRUE)
  /\ files' = [files EXCEPT !.counts =
                 {[hash |-> h, rows |-> {r.instance : r \in {x \in results : x.hash = h}}] :
                    h \in {r.hash : r \in {x \in results : x.runhash}}}]

(* Mutant: the configurations are written first.                           *)
ExportConfsFirst ==
  \/ ExportConfs("off", "confs") \/ ExportSolved("confs", "solved")
  \/ ExportStatus("solved", "status") \/ ExportRunhashes("status", "done")

Export ==
  \/ ExportSolved("off", "solved") \/ ExportStatus("solved", "status")
  \/ ExportConfs("status", "confs") \/ ExportRunhashes("confs", "done")

Next == Export \/ \E p \in Tuners : Tuner(p)

Spec == Init /\ [][Next]_vars

-----------------------------------------------------------------------------
(* Properties.                                                             *)

(* Whatever tuners with lists of their own share the file, start at once,  *)
(* race for the next id, end half-way or come back: the numbers of a row   *)
(* lead to the instance it was measured on and to the status that was put  *)
(* for it, and no strategy has two rows for one instance                   *)
(* (cache.rs:163-195, 336-406).                                            *)
RowsDecode ==
  /\ results = Joined
  /\ \A r \in results : told[<<r.hash, instances[r.instance]>>] = StatusName(r.status)
  /\ \A k \in DOMAIN told : told[k] # "none" =>
       \E r \in results : <<r.hash, instances[r.instance]>> = k
  /\ \A r, s \in results : r.hash = s.hash /\ r.instance = s.instance => r = s

(* "`strategies` makes the cache self-describing" (cache.rs:30-42): every  *)
(* row has its configuration, but for rows from before the table.          *)
RowsDescribed == \A r \in results : r.hash \in strategies \cup old

(* An export made while tuners write is closed: an instance listed as      *)
(* solved is in the status file, every strategy exported there has a       *)
(* configuration unless it is from before the table, and the coverage a    *)
(* runhash is given with is not less than the lines of the status file     *)
(* (db.rs:307-317).                                                        *)
ExportIsClosed ==
  ex = "done" =>
    /\ \A l \in files.solved : \E m \in files.status : <<m.hash, m.path>> = <<l.hash, l.path>>
    /\ \A l \in files.status : l.hash \in files.confs \cup old
    /\ \A c \in files.counts : \A l \in files.status :
         l.hash = c.hash => IdOf(instances, l.path) \in c.rows
(* Types, as far as the proofs need them.                                  *)
Putting == {"intern", "interned", "read", "write"}

Results == [hash : Hashes, path : Paths, status : Statuses, runhash : BOOLEAN]

TypeOK ==
  /\ instances \in Seq(Paths) /\ statuses \in Seq(Statuses)
  /\ results \subseteq [hash : Hashes, instance : Nat \ {0}, status : Nat \ {0},
                        runhash : BOOLEAN]
  /\ at \in [Tuners -> {"off", "create", "columns", "alter", "load", "idle"} \cup Putting]
  /\ step \in [Tuners -> Nat \ {0}]
  /\ ids \in [Tuners -> [Paths -> Nat]]
  /\ interned \in [Tuners -> [Statuses -> Nat]]
  /\ submitted \in [Tuners -> SUBSET Hashes]
  /\ todo \in [Tuners -> Results \cup {NoResult}]
  /\ told \in [Hashes \X Paths -> Statuses \cup {"none"}]

(* A number stands for one name: the UNIQUE columns.                       *)
Unique(seq) == \A i, j \in 1 .. Len(seq) : seq[i] = seq[j] => i = j

(* A number i that stands for x, if it is one.                             *)
Stands(i, seq, x) == i # 0 => i \in 1 .. Len(seq) /\ seq[i] = x

(* What a tuner remembers is what the tables say.                          *)
MemoryTrue(p) ==
  /\ \A q \in Paths : Stands(ids[p][q], instances, q)
  /\ \A s \in Statuses : Stands(interned[p][s], statuses, s)
  /\ submitted[p] \subseteq strategies

(* What it is putting can be numbered, the further it is the more of it.   *)
PutReady(p) ==
  at[p] \in Putting =>
    /\ todo[p] \in Results
    /\ todo[p].hash \in strategies
    /\ ids[p][todo[p].path] # 0
    /\ at[p] = "interned" => InSeq(statuses, todo[p].status)
    /\ at[p] \in {"read", "write"} => interned[p][todo[p].status] # 0

(* What makes RowsDecode and RowsDescribed inductive.                      *)
IInv ==
  /\ TypeOK
  /\ Unique(instances) /\ Unique(statuses)
  /\ \A p \in Tuners : MemoryTrue(p) /\ PutReady(p)
  /\ RowsDecode
  /\ RowsDescribed

=============================================================================
