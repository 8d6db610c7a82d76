---------------------------- MODULE BindingCheck ----------------------------
(***************************************************************************)
(* Evidence for bindings from a repository that keeps changing: P4 and     *)
(* CodeBaseMemory publish their manifests at different moments, the former *)
(* for the paths it was asked about, the latter for the whole repository   *)
(* or for what its adapter selected.  The manifests tell the truth about   *)
(* the tree at that moment; verify judges the bindings by them.            *)
(***************************************************************************)
EXTENDS BindingVerdict

CONSTANTS
  Trees,     \* states of the repository: the symbols declared in each of its files
  Bindings,  \* that the cards have
  Forms      \* of a CodeBaseMemory manifest: "lists" or "nodes"

VARIABLES
  tree,   \* the repository
  p4,     \* what P4 has published: the manifest and the tree it is of
  index   \* what CodeBaseMemory has published

vars == <<tree, p4, index>>

Unpublished == [manifest |-> None, tree |-> None]

Init ==
  /\ tree \in Trees
  /\ p4 = Unpublished
  /\ index = Unpublished

Edit ==
  /\ \E t \in Trees : tree' = t
  /\ UNCHANGED <<p4, index>>

-------------------------------------------------------------------------------
(* Providers                                                               *)

Files(t) == DOMAIN t

Declared(t) ==
  UNION {{[name |-> s, short |-> Short[s], path |-> p, exists |-> TRUE] : s \in t[p]} : p \in Files(t)}

\* A file that the fstat does not know of is left out of its answer.
FstatStatus(files, returncode) ==
  IF files = {} /\ returncode # 0 THEN "unavailable"
  ELSE IF files # {} /\ returncode = 0 THEN "ready"
  ELSE "partial"

Fstat(paths, behind) ==
  LET files == Files(tree) \cap paths
  IN  SetToSeq({[path |-> p, spelling |-> p, exists |-> TRUE, behind |-> p \in behind] : p \in files})

CollectP4 ==
  /\ p4 = Unpublished
  /\ \E paths \in SUBSET DOMAIN Stem, behind \in SUBSET DOMAIN Stem, returncode \in {0, 1} :
       /\ paths # {} /\ behind \subseteq paths
       /\ p4' = [tree |-> tree,
                 manifest |-> Manifest([provider |-> "p4", coverage |-> "selected", indexed |-> FALSE,
                                        status |-> FstatStatus(Files(tree) \cap paths, returncode),
                                        files |-> Fstat(paths, behind), symbols |-> <<>>], <<>>)]
  /\ UNCHANGED <<tree, index>>

\* The command cannot be run, or no path was given.
NoP4 ==
  /\ p4 = Unpublished
  /\ p4' = [tree |-> tree,
            manifest |-> Manifest([provider |-> "p4", coverage |-> "selected", indexed |-> FALSE,
                                   status |-> "unavailable", files |-> <<>>, symbols |-> <<>>], <<>>)]
  /\ UNCHANGED <<tree, index>>

\* The graph has nodes for each file, for the module in it, and for its symbols.
Nodes(files, symbols) ==
  SetToSeq({[kind |-> "file", name |-> None, path |-> p, exists |-> TRUE] : p \in files}
           \cup {[kind |-> "module", name |-> Stem[p], path |-> p, exists |-> TRUE] : p \in files}
           \cup {[kind |-> "class", name |-> s.name, path |-> s.path, exists |-> TRUE] : s \in symbols})

Rows(files) == SetToSeq({[path |-> p, spelling |-> p, exists |-> TRUE, behind |-> FALSE] : p \in files})

Indexed(form, status, coverage, files) ==
  LET symbols == {s \in Declared(tree) : s.path \in files}
      m == [provider |-> "codebase_memory", status |-> status, coverage |-> coverage,
            indexed |-> FALSE, files |-> <<>>, symbols |-> <<>>]
  IN  IF form = "lists"
      THEN Manifest([m EXCEPT !.files = Rows(files), !.symbols = SetToSeq(symbols)], <<>>)
      ELSE Manifest(m, Nodes(files, symbols))

ExportIndex ==
  /\ index = Unpublished
  /\ \E form \in Forms, status \in {"ready", "partial", "failed"},
        coverage \in {"complete", "selected"}, files \in SUBSET Files(tree) :
       /\ status = "ready" /\ coverage = "complete" => files = Files(tree)
       /\ index' = [tree |-> tree, manifest |-> Indexed(form, status, coverage, files)]
  /\ UNCHANGED <<tree, p4>>

Next == Edit \/ CollectP4 \/ NoP4 \/ ExportIndex

Spec == Init /\ [][Next]_vars

-------------------------------------------------------------------------------
(* Verification                                                            *)

\* Sorted by provider, as they are hashed and merged.
Published == SelectSeq(<<index, p4>>, LAMBDA e : e # Unpublished)

Manifests == [i \in DOMAIN Published |-> Published[i].manifest]

Verdict(b) == Evaluate(b, Manifests)

-------------------------------------------------------------------------------
(* Properties *)

Verdicts == {"verified", "missing", "renamed", "stale", "unverified", "rejected"}

TypeOK ==
  /\ tree \in Trees
  /\ \A e \in {p4, index} \ {Unpublished} :
       /\ e.tree \in Trees
       /\ e.manifest.status \in {"ready", "partial", "failed", "unavailable"}
       /\ e.manifest.status = "ready" => e.manifest.files # <<>> \/ e.manifest.symbols # <<>>
  /\ \A b \in Bindings : Verdict(b) \in Verdicts

Sources == {Published[i] : i \in {i \in DOMAIN Published : Available(Published[i].manifest)}}

InTree(b, t) ==
  \/ b.path \in Files(t)
  \/ b.qualified # None /\ \E p \in Files(t) : b.qualified \in t[p]

\* What is reported missing was in none of the trees that the evidence was taken from, for a
\* target that says which it is: a path, or a qualified name.
MissingWasAbsent ==
  \A b \in Bindings : Verdict(b) = "missing" => \A e \in Sources : ~InTree(b, e.tree)

Behold(b, t, p) == p \in Files(t) /\ \E s \in t[p] : Short[s] = ShortRequested(b)

\* What is verified was seen: the file, and in it a symbol of the name.  What is renamed was
\* seen in another file.
VerifiedWasSeen ==
  \A b \in Bindings :
    /\ Verdict(b) = "verified" /\ b.path # None =>
         \E e \in {p4, index} \ {Unpublished} : b.path \in Files(e.tree)
    /\ Verdict(b) = "verified" /\ Requested(b) # None =>
         \E p \in IF b.path # None THEN {b.path} ELSE DOMAIN Stem : Behold(b, index.tree, p)
    /\ Verdict(b) = "renamed" => \E p \in DOMAIN Stem \ {b.path} : Behold(b, index.tree, p)

\* A binding is stale when P4 says so, or when an index of symbols lacks its symbol: a list of
\* files is not proof that an omitted method is gone.
StaleWasGone ==
  \A b \in Bindings : Verdict(b) = "stale" =>
    \/ Behind(Manifests, b)
    \/ /\ index # Unpublished
       /\ index.manifest.coverage = "complete" /\ index.manifest.status = "ready" =>
            \A p \in Files(index.tree) : b.qualified \notin index.tree[p]

\* "Ambiguous symbols must remain unverified instead of guessing": a short name that leads to
\* several files, and is all that the binding has.
AmbiguousStaysUnverified ==
  \A b \in Bindings :
    /\ b.path = None /\ b.qualified = None
    /\ Exact(Merge(Manifests), b) = <<>>
    /\ Len(SameShort(Merge(Manifests), b)) > 1 /\ ~Unique(SameShort(Merge(Manifests), b))
    => Verdict(b) = "unverified"
===============================================================================
