--------------------------- MODULE BindingVerdict ---------------------------
(***************************************************************************)
(* What verify-bindings concludes about a binding of a memory card from    *)
(* the manifests of a repository that its providers publish                *)
(* (verification/models.py, providers.py and VerificationService._evaluate). *)
(*                                                                         *)
(* A path stands for every spelling that normalize_repo_path and casefold  *)
(* make equal, a symbol name for every spelling of normalize_symbol.       *)
(* Scores, reasons and the evidence copied into the audit are left out.    *)
(***************************************************************************)
EXTENDS Naturals, Sequences, FiniteSets, SequencesExt

CONSTANTS
  Short,         \* the last part of a symbol name; a short name is its own
  Stem,          \* the file stem of a path, as a short name
  Placeholders,  \* globs, URLs and skill: references in the place of a path
  None

-------------------------------------------------------------------------------
(* Manifests                                                               *)

\* Of rows with the same key the first one is kept.
FirstPer(rows, Key(_)) ==
  FoldLeft(LAMBDA kept, r : IF \E i \in DOMAIN kept : Key(kept[i]) = Key(r) THEN kept
                            ELSE Append(kept, r),
           <<>>, rows)

SymbolsOnce(symbols) == FirstPer(symbols, LAMBDA s : <<s.name, s.path>>)

\* A node of a graph is a file, or a symbol in one; a node without a name stands for its file.
\* A module is a symbol named after its file.
IsFile(n) == n.kind = "file" \/ n.name = None

NodeFiles(nodes) ==
  LET files == SelectSeq(nodes, IsFile)
  IN  [i \in DOMAIN files |-> [path |-> files[i].path, spelling |-> files[i].path,
                               exists |-> files[i].exists, behind |-> FALSE]]

NodeSymbols(nodes) ==
  LET symbols == SelectSeq(nodes, LAMBDA n : ~IsFile(n))
  IN  [i \in DOMAIN symbols |->
        [name |-> symbols[i].name, path |-> symbols[i].path, exists |-> symbols[i].exists,
         short |-> IF symbols[i].kind = "module" THEN Stem[symbols[i].path]
                   ELSE Short[symbols[i].name]]]

\* An empty result is not an authoritative snapshot.
Settled(m) ==
  IF m.status = "ready" /\ m.files = <<>> /\ m.symbols = <<>> THEN [m EXCEPT !.status = "partial"]
  ELSE m

\* What an adapter has published, as a list of files and symbols or as a graph.
Manifest(m, nodes) ==
  Settled([m EXCEPT !.files = FirstPer(@ \o NodeFiles(nodes), LAMBDA f : f.spelling),
                    !.symbols = SymbolsOnce(@ \o NodeSymbols(nodes))])

MergedStatus(ms) ==
  LET Some(status) == \E i \in DOMAIN ms : ms[i].status = status
  IN  IF Some("ready") THEN "ready"
      ELSE IF Some("partial") THEN "partial"
      ELSE IF Some("failed") THEN "failed"
      ELSE "unavailable"

\* Manifests come sorted by provider; a row of an earlier one hides the later ones.
Merge(ms) ==
  Settled([provider |-> "composite", status |-> MergedStatus(ms), coverage |-> "complete",
           indexed |-> FALSE,
           files |-> FirstPer(FlattenSeq([i \in DOMAIN ms |-> ms[i].files]), LAMBDA f : f.path),
           symbols |-> SymbolsOnce(FlattenSeq([i \in DOMAIN ms |-> ms[i].symbols]))])

-------------------------------------------------------------------------------
(* Looking a binding up in a manifest                                      *)

\* A current row before a tombstone.
Preferred(rows) ==
  LET current == SelectSeq(rows, LAMBDA r : r.exists)
  IN  IF current # <<>> THEN current[1] ELSE IF rows # <<>> THEN rows[1] ELSE None

LookupPath(m, p) == Preferred(SelectSeq(m.files, LAMBDA f : p # None /\ f.path = p))

Requested(b) == IF b.qualified # None THEN b.qualified ELSE b.symbol

ShortRequested(b) == IF b.symbol # None THEN Short[b.symbol] ELSE Short[b.qualified]

Exact(m, b) == SelectSeq(m.symbols, LAMBDA s : s.name = Requested(b))

SameShort(m, b) == SelectSeq(m.symbols, LAMBDA s : s.short = ShortRequested(b) /\ s.exists)

\* A short name is good enough when it leads to a single file; several rows that name no file
\* lead nowhere.
Unique(rows) ==
  \/ Len(rows) = 1
  \/ Cardinality({rows[i].path : i \in DOMAIN rows} \ {None}) = 1

LookupSymbol(m, b) ==
  IF Requested(b) = None THEN None
  ELSE IF Exact(m, b) # <<>> THEN Preferred(Exact(m, b))
  ELSE IF Unique(SameShort(m, b)) THEN SameShort(m, b)[1]
  ELSE None

Found(row) == row # None /\ row.exists

-------------------------------------------------------------------------------
(* The verdict                                                             *)

Concrete(b) == (b.path # None \/ Requested(b) # None) /\ b.path \notin Placeholders

Available(m) == m.status \in {"ready", "partial"}

\* Faulty: what a manifest covers does not matter.
AuthoritativeIfReady(ms) == \A i \in DOMAIN ms : Available(ms[i]) => ms[i].status = "ready"

\* Only complete manifests tell that something is absent.
AbsenceAuthoritative(ms) ==
  \A i \in DOMAIN ms : Available(ms[i]) => ms[i].status = "ready" /\ ms[i].coverage = "complete"

\* The workspace of P4 is behind its head for the bound file.
Behind(ms, b) ==
  \E i \in DOMAIN ms : /\ ms[i].provider = "p4"
                       /\ LookupPath(ms[i], b.path) # None
                       /\ LookupPath(ms[i], b.path).behind

SymbolIndex(ms) == \E i \in DOMAIN ms : ms[i].symbols # <<>> \/ ms[i].indexed

ResolvedPath(path, symbol) ==
  IF symbol # None /\ symbol.path # None THEN symbol.path
  ELSE IF path # None THEN path.path
  ELSE None

PathAndSymbol(ms, b, path, symbol) ==
  IF Found(symbol)
  THEN IF ResolvedPath(path, symbol) \notin {None, b.path} THEN "renamed"
       ELSE IF Behind(ms, b) THEN "stale"
       ELSE "verified"
  ELSE IF Found(path) THEN IF SymbolIndex(ms) \/ Behind(ms, b) THEN "stale" ELSE "unverified"
  ELSE IF AbsenceAuthoritative(ms) THEN "missing"
  ELSE "unverified"

PathOnly(ms, b, path) ==
  IF Found(path) THEN IF Behind(ms, b) THEN "stale" ELSE "verified"
  ELSE IF AbsenceAuthoritative(ms) THEN "missing"
  ELSE "unverified"

SymbolOnly(ms, symbol) ==
  IF Found(symbol) THEN "verified"
  ELSE IF AbsenceAuthoritative(ms) /\ SymbolIndex(ms) THEN "missing"
  ELSE "unverified"

Evaluate(b, ms) ==
  LET path == LookupPath(Merge(ms), b.path)
      symbol == LookupSymbol(Merge(ms), b)
  IN  IF ~Concrete(b) THEN "rejected"
      ELSE IF ~\E i \in DOMAIN ms : Available(ms[i]) THEN "unverified"
      ELSE IF b.path # None /\ Requested(b) # None THEN PathAndSymbol(ms, b, path, symbol)
      ELSE IF b.path # None THEN PathOnly(ms, b, path)
      ELSE SymbolOnly(ms, symbol)
===============================================================================
