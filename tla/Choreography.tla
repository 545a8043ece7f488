---------------------------- MODULE Choreography ----------------------------
(***************************************************************************)
(* The authentication policy as data (src/choreography.ts): a tree of      *)
(* component, sequence and choice nodes, the rewriting of a tree, and the  *)
(* enumeration of the paths a person can perform.  Pure operators, without *)
(* state.  They are recursive, so this module and those that extend it are *)
(* for TLC only; the modules that carry theorems take the set of complete  *)
(* paths as a constant instead.                                            *)
(***************************************************************************)
EXTENDS Naturals, Sequences, SequencesExt

CONSTANT End  \* the Symbol("end") that walk appends to find complete paths

Component(name) == [kind |-> "component", component |-> name]
Sequence(nodes) == [kind |-> "sequence", components |-> nodes]
Choice(nodes)   == [kind |-> "choice", components |-> nodes]

\* isEquals compares two trees by structure, which is what = does here.
IsEquals(a, b) == a = b

\* The children of a node after the first-occurrence filter of simplify.
FirstOccurrences(nodes) ==
  LET Keep(kept, node) == IF \E n \in DOMAIN kept : IsEquals(kept[n], node)
                          THEN kept ELSE Append(kept, node)
  IN  FoldLeft(Keep, <<>>, nodes)

\* Lifts children of the same kind, drops equal duplicates, and replaces a
\* node of one child with that child.
RECURSIVE Simplify(_)
Simplify(tree) ==
  IF tree.kind = "component" THEN tree ELSE
  LET lifted == [n \in DOMAIN tree.components |->
                   LET child == Simplify(tree.components[n])
                   IN  IF child.kind = tree.kind THEN child.components ELSE <<child>>]
      children == FirstOccurrences(FlattenSeq(lifted))
  IN  IF Len(children) = 1 THEN children[1]
      ELSE [kind |-> tree.kind, components |-> children]

\* One entry per step and per path that leads to it, in the order of the
\* generator: the step, and the names performed before it.
RECURSIVE InnerWalk(_, _)
InnerWalk(tree, path) ==
  CASE tree.kind = "component" -> << [component |-> tree.component, path |-> path] >>
    [] tree.kind = "choice" ->
         FlattenSeq([n \in DOMAIN tree.components |-> InnerWalk(tree.components[n], path)])
    [] tree.kind = "sequence" /\ tree.components = <<>> -> <<>>
    [] OTHER ->
         LET first == Head(tree.components)
             rest  == Tail(tree.components)
         IN  IF first.kind = "choice"
             THEN FlattenSeq([n \in DOMAIN first.components |->
                    InnerWalk(Simplify(Sequence(<<first.components[n]>> \o rest)), path)])
             ELSE InnerWalk(first, path)
                    \o InnerWalk(Simplify(Sequence(rest)), Append(path, first.component))

\* walk: an entry whose component is End closes a complete path.
Walk(tree) == InnerWalk(Simplify(Sequence(<<tree, Component(End)>>)), <<>>)

CompletePaths(tree) ==
  { entry.path : entry \in { e \in ToSet(Walk(tree)) : e.component = End } }

\* Variants with a bug, for OverOnlyOnACompletePath and OffersEveryContinuation.
PeekIsNullEarly(tree, path) == \E complete \in CompletePaths(tree) : IsPrefix(path, complete)

PeekOffersOne(tree, path) ==
  LET offered == SelectSeq(Walk(tree), LAMBDA e : e.component # End /\ e.path = path)
  IN  { offered[n].component : n \in DOMAIN offered \cap {1} }

\* peek answers null as soon as a complete path is a prefix of `path`.
PeekIsNull(tree, path) == \E complete \in CompletePaths(tree) : IsPrefix(complete, path)

\* The names peek offers next; with none it throws ComponentNotInChoreographyError.
PeekOffers(tree, path) ==
  { entry.component : entry \in { e \in ToSet(Walk(tree)) : e.component # End /\ e.path = path } }

\* Every ordered choice of `count` of the nodes, by position.
Arrangements(count, nodes) ==
  LET places == { f \in [1..count -> DOMAIN nodes] :
                    \A m, n \in 1..count : f[m] = f[n] => m = n }
  IN  { [n \in 1..count |-> nodes[f[n]]] : f \in places }

Pick(count, nodes) == Choice(SetToSeq({ Sequence(chosen) : chosen \in Arrangements(count, nodes) }))
-----------------------------------------------------------------------------
(***************************************************************************)
(* What a policy means, independently of walk: the set of complete paths   *)
(* of a tree, read off its structure.  The reference the code is compared  *)
(* with.                                                                   *)
(***************************************************************************)
RECURSIVE Language(_)
Language(tree) ==
  CASE tree.kind = "component" -> { <<tree.component>> }
    [] tree.kind = "choice" -> UNION { Language(tree.components[n]) : n \in DOMAIN tree.components }
    [] OTHER -> FoldLeft(LAMBDA heads, child : { h \o t : h \in heads, t \in Language(child) },
                         { <<>> }, tree.components)

\* No path of the policy performs the same component two times.
IsRepetitionFree(tree) ==
  \A path \in Language(tree) : \A m, n \in DOMAIN path : path[m] = path[n] => m = n

\* No branch of the policy is a dead end: a choice without alternatives, which
\* pick builds when it is asked for more components than it is given.
RECURSIVE HasNoDeadEnd(_)
HasNoDeadEnd(tree) ==
  \/ tree.kind = "component"
  \/ /\ tree.kind = "sequence" \/ tree.components # <<>>
     /\ \A n \in DOMAIN tree.components : HasNoDeadEnd(tree.components[n])

NextSteps(language, path) ==
  { p[Len(path) + 1] : p \in { q \in language : IsStrictPrefix(path, q) } }
=============================================================================
