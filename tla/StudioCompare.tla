----------------------------- MODULE StudioCompare -----------------------------
(***************************************************************************)
(* benchmarks/compare_edgefirst.py over benchmarks/studio_fetch.py: the    *)
(* sessions of a catalog export are matched to the lanes of the metrics    *)
(* file, their results are fetched from EdgeFirst Studio, kept in a cache  *)
(* file between comparisons, and reported next to the reference rows.      *)
(*                                                                         *)
(* An average precision is a natural number, 0 included; a row of the      *)
(* metrics file is that of MetricsStore, which is filled meanwhile.        *)
(***************************************************************************)
EXTENDS MetricsStore

CONSTANTS
    Sessions,      \* validation sessions of the Studio
    Catalogs,      \* exports: sequences of records
    Contents,      \* what the Studio can hold of a finished session
    MaxCompares    \* bound on comparisons

NoAP == -1

\* A session that has not been evaluated yet, and one that failed to.
Blank == [ap |-> NoAP, timed |-> FALSE, fps |-> FALSE]

ASSUME CatalogAssumption ==
    /\ Catalogs \subseteq
          Seq([session : Sessions, ours : BOOLEAN, model : STRING,
               precision : {"FP32", "FP16", "INT8"}])
    /\ Contents \subseteq [ap : Nat \cup {NoAP}, timed : BOOLEAN, fps : BOOLEAN]
    /\ MaxCompares \in Nat

VARIABLES
    studio,      \* session -> what the Studio holds of it
    cache,       \* the cache file: none, torn or whole, and its entries
    cmp,         \* the comparison that runs
    shown,       \* the lines of the last report
    compares     \* comparisons so far

studioVars == <<studio, cache, cmp, shown, compares>>
allVars == <<vars, studioVars>>

Nothing == [s \in {} |-> 0]

Idle == [at |-> "idle", refresh |-> FALSE, rows |-> <<>>,
         matched |-> <<>>, found |-> Nothing, todo |-> <<>>]

CompareInit ==
    /\ Init
    /\ studio \in [Sessions -> {Blank}]
    /\ cache = [file |-> "none", held |-> Nothing]
    /\ cmp = Idle
    /\ shown = {}
    /\ compares = 0

-----------------------------------------------------------------------------
(* What is compared with what.                                             *)

Key(r) == <<r.model, r.precision>>

\* Records of our platform whose lane has rows.
Usable(catalog, rows) ==
    Among(catalog,
          {r \in ToSet(catalog) :
              r.ours /\ RowsOfKey(rows, r.model, r.precision) # <<>>})

\* match_catalog: the first session per key, later ones are dropped.
Matched(catalog, rows) ==
    LET usable == Usable(catalog, rows)
        seen(k) == \E j \in 1 .. k - 1 : Key(usable[j]) = Key(usable[k])
    IN  FlattenSeq([k \in DOMAIN usable |->
                      IF seen(k) THEN <<>> ELSE <<usable[k]>>])

\* fetch_studio_metrics: `or None` drops an average precision of zero.
FetchMetrics(s) ==
    [studio[s] EXCEPT !.ap = IF @ = 0 THEN NoAP ELSE @]

\* edgefirst_canonical: throughput is kept next to stage times only.
Canonical(m) ==
    [error |-> FALSE, ap |-> m.ap, fps |-> m.timed /\ m.fps]

\* edgefirst_from_catalog, of an export made as the comparison starts.
FromCatalog(s) ==
    [error |-> FALSE, ap |-> studio[s].ap, fps |-> studio[s].fps]

\* {"error": str(exc)}: no metric is found in it.
ErrorEntry == [error |-> TRUE, ap |-> NoAP, fps |-> FALSE]

-----------------------------------------------------------------------------

\* A validation session finishes in the Studio.
Publish(s) ==
    /\ studio[s] = Blank
    /\ \E c \in Contents : studio' = [studio EXCEPT ![s] = c]
    /\ UNCHANGED <<vars, cache, cmp, shown, compares>>

\* main with --offline: the numbers are the catalog's.
StartOffline ==
    /\ cmp.at = "idle"
    /\ compares < MaxCompares
    /\ compares' = compares + 1
    /\ \E catalog \in Catalogs :
          LET matched == Matched(catalog, file)
          IN  cmp' = [at |-> "report", refresh |-> FALSE, rows |-> file,
                      matched |-> matched,
                      found |-> [s \in {r.session : r \in ToSet(matched)} |->
                                   FromCatalog(s)],
                      todo |-> <<>>]
    /\ UNCHANGED <<vars, studio, cache, shown>>

\* Mutant: every matched session is fetched, cached or not.
ToFetchAll(matched, held) == matched

\* The matched sessions without an entry; an error is an entry.
ToFetch(matched, held) ==
    Among(matched, {r \in ToSet(matched) : r.session \notin DOMAIN held})

\* main without: the cache is read, unless --refresh leaves it unread.
Start ==
    /\ cmp.at = "idle"
    /\ compares < MaxCompares
    /\ compares' = compares + 1
    /\ \E catalog \in Catalogs, refresh \in BOOLEAN :
          LET matched == Matched(catalog, file)
              held == IF refresh THEN Nothing ELSE cache.held
          IN  /\ refresh \/ cache.file # "torn"
              /\ cmp' = [at |-> "fetch", refresh |-> refresh, rows |-> file,
                         matched |-> matched, found |-> held,
                         todo |-> ToFetch(matched, held)]
    /\ UNCHANGED <<vars, studio, cache, shown>>

\* json.loads raises on a torn cache: nothing is reported or written.
StartOnTornCache ==
    /\ cmp.at = "idle"
    /\ cache.file = "torn"
    /\ compares < MaxCompares
    /\ compares' = compares + 1
    /\ UNCHANGED <<vars, studio, cache, cmp, shown>>

\* The next session's entry joins what was found.
Found(entry) ==
    /\ cmp.at = "fetch"
    /\ cmp.todo # <<>>
    /\ LET next == Head(cmp.todo).session
       IN  cmp' = [cmp EXCEPT
                     !.found = [s \in DOMAIN @ \cup {next} |->
                                  IF s = next THEN entry ELSE cmp.found[s]],
                     !.todo = Tail(@)]
    /\ UNCHANGED <<vars, studio, cache, shown, compares>>

Fetch == Found(Canonical(FetchMetrics(Head(cmp.todo).session)))

\* Mutant: a failed fetch counts as an average precision of zero.
FetchFailsAsZero == Found([ErrorEntry EXCEPT !.ap = 0])

\* No token, no connection, an HTTP or an RPC error: it is the entry.
FetchFails == Found(ErrorEntry)

\* CACHE_PATH.write_text: what was found replaces the file.
SaveCache ==
    /\ cmp.at = "fetch"
    /\ cmp.todo = <<>>
    /\ cache' = [file |-> "whole", held |-> cmp.found]
    /\ cmp' = [cmp EXCEPT !.at = "report"]
    /\ UNCHANGED <<vars, studio, shown, compares>>

\* A kill loses what was fetched, and the old cache if it was being written.
Killed ==
    /\ cmp.at = "fetch"
    /\ \/ UNCHANGED cache
       \/ /\ cmp.todo = <<>>
          /\ cache' = [file |-> "torn", held |-> Nothing]
    /\ cmp' = Idle
    /\ UNCHANGED <<vars, studio, shown, compares>>

\* accuracy_report and perf_report want a number from both sides.
ReportedAP(entry, row) == IF row = NoRow THEN NoAP ELSE entry.ap

Speedup(entry, row) == row # NoRow /\ entry.fps

\* The three reports: a line per matched lane.
Report ==
    /\ cmp.at = "report"
    /\ shown' =
          {LET entry == cmp.found[r.session]
               row == Reference(cmp.rows, r.model, r.precision)
           IN  [session |-> r.session, model |-> r.model,
                precision |-> r.precision, row |-> row,
                ap |-> ReportedAP(entry, row),
                speedup |-> Speedup(entry, row)]
             : r \in ToSet(cmp.matched)}
    /\ cmp' = Idle
    /\ UNCHANGED <<vars, studio, cache, compares>>

Comparison ==
    \/ \E s \in Sessions : Publish(s)
    \/ Fetch
    \/ FetchFails
    \/ StartOffline
    \/ Start
    \/ StartOnTornCache
    \/ SaveCache
    \/ Killed
    \/ Report

\* benchmark_a and normalize go on meanwhile.
CompareNext ==
    \/ Comparison
    \/ Next /\ UNCHANGED studioVars

CompareSpec == CompareInit /\ [][CompareNext]_allVars

-----------------------------------------------------------------------------
(* Properties.                                                             *)

\* A number in the report is the Studio's own for the session of that line,
\* next to a row of the same model and precision, whichever of the cache, the
\* Studio or the catalog it came from, and no lane has two lines.
LinesAreOwn ==
    /\ \A l \in shown :
          /\ l.ap # NoAP => l.ap = studio[l.session].ap
          /\ l.speedup => studio[l.session].fps
          /\ l.ap # NoAP \/ l.speedup =>
                Model[l.row.label] = l.model /\ l.row.precision = l.precision
    /\ \A l, m \in shown : Key(l) = Key(m) => l = m

\* A comparison without --refresh keeps every entry of the cache as it is,
\* those of sessions that its catalog does not list included, and never
\* replaces a torn cache.
CacheEntriesStand ==
    [][~cmp.refresh /\ cache'.file = "whole" /\ cache' # cache =>
          /\ cache.file # "torn"
          /\ \A s \in DOMAIN cache.held :
                s \in DOMAIN cache'.held /\ cache'.held[s] = cache.held[s]]_allVars

=============================================================================
