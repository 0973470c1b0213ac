------------------------------- MODULE FindDep ------------------------------
(***************************************************************************)
(* tools/find_dep: which components go into a kernel image, and in which   *)
(* order their cl_<component>_init functions run.                          *)
(*                                                                         *)
(* The tool reads every compiled component, maps each exported symbol to a *)
(* component, follows the undefined symbols of the top component to a      *)
(* dependency graph, and walks that graph depth first.  The two recursive  *)
(* functions, build_dependency and traverse, are one step per iteration of *)
(* their loops over an explicit stack of activations.                      *)
(***************************************************************************)
EXTENDS Naturals, Sequences, FiniteSets, SequencesExt

CONSTANTS
  Files,     \* the *.ko files in glob order (alphabetical), without suffix
  Symbols,
  LdsSyms,   \* the symbols lds.conf lists: defined by the linker script
  Top,       \* the top component
  Booter,    \* the component named "booter"
  Lds,       \* the pseudo component named "lds"
  None,
  ExportChoices,  \* bound: the ways the components may export symbols
  UndefChoices    \* bound: the ways they may leave symbols undefined

Components == ToSet(Files)
AllMods == Components \cup {Lds}

ASSUME FindDepConstants ==
  /\ Files \in Seq(Components)
  /\ \A i, j \in 1..Len(Files) : Files[i] = Files[j] => i = j
  /\ Lds \notin Components
  /\ None \notin AllMods
  /\ LdsSyms \subseteq Symbols
  /\ ExportChoices \subseteq [Components -> SUBSET Symbols]
  /\ \A u \in UndefChoices : \A m \in Components : u[m] \in Seq(Symbols)

VARIABLES
  exports,       \* component -> symbols in its __ksymtab_strings
  undefined,     \* component -> its undefined symbols, in symbol table order
  undef_syms,    \* Module.undef_syms: what build_dependency has not taken yet
  file,          \* discover_modules: files read so far
  sym_map,       \* symbol -> component, or None
  dependencies,  \* Module.dependencies
  status,        \* Module.status
  stack,         \* activations of build_dependency, then of traverse
  names,         \* Payload.names
  phase,         \* what main is doing, or how it ended
  chain,         \* Payload.route as the cyclic-chain panic shows it
  selected,      \* selected.in: the components to link, or None
  cl_init        \* cl_init.c: the order of initialisation, or None

input == <<exports, undefined>>
outputs == <<chain, selected, cl_init>>
vars == <<exports, undefined, undef_syms, file, sym_map, dependencies, status, stack,
          names, phase, chain, selected, cl_init>>

\* Everything but the component files themselves, as main finds it.
Start ==
  /\ undef_syms = [m \in AllMods |-> IF m = Lds THEN <<>> ELSE undefined[m]]
  /\ file = 0
  /\ sym_map = [s \in Symbols |-> None]
  /\ dependencies = [m \in AllMods |-> <<>>]
  /\ status = [m \in AllMods |-> "INITIAL"]
  /\ stack = <<>>
  /\ names = <<>>
  /\ phase = "discover"
  /\ chain = <<>>
  /\ selected = None
  /\ cl_init = None

\* A component does not leave undefined what it defines itself.
Init ==
  /\ exports \in ExportChoices
  /\ undefined \in UndefChoices
  /\ \A m \in Components : ToSet(undefined[m]) \cap exports[m] = {}
  /\ Start
-----------------------------------------------------------------------------
\* Mutant: the first component to export a symbol keeps it.
DiscoverFileFirst ==
  /\ phase = "discover"
  /\ file < Len(Files)
  /\ file' = file + 1
  /\ sym_map' = [s \in Symbols |-> IF s \in exports[Files[file + 1]] /\ sym_map[s] = None
                                   THEN Files[file + 1] ELSE sym_map[s]]
  /\ UNCHANGED <<input, undef_syms, dependencies, status, stack, names, phase, outputs>>

\* discover_modules, one file: export_symbols enters its symbols in sym_map,
\* over whatever component exported them before (no weak/strong distinction).
DiscoverFile ==
  /\ phase = "discover"
  /\ file < Len(Files)
  /\ file' = file + 1
  /\ sym_map' = [s \in Symbols |-> IF s \in exports[Files[file + 1]]
                                   THEN Files[file + 1] ELSE sym_map[s]]
  /\ UNCHANGED <<input, undef_syms, dependencies, status, stack, names, phase, outputs>>

\* build_dependency(m) is called: its undefined symbols are taken out.
Activation(m) == [mod |-> m, syms |-> undef_syms[m], remained |-> FALSE]

AddLdsSymbols ==
  /\ phase = "discover"
  /\ file = Len(Files)
  /\ IF Top \notin Components
     THEN /\ phase' = "panic: no top"
          /\ UNCHANGED <<sym_map, stack, undef_syms>>
     ELSE /\ sym_map' = [s \in Symbols |-> IF s \in LdsSyms THEN Lds ELSE sym_map[s]]
          /\ phase' = "build"
          /\ stack' = <<Activation(Top)>>
          /\ undef_syms' = [undef_syms EXCEPT ![Top] = <<>>]
  /\ UNCHANGED <<input, file, dependencies, status, names, outputs>>

Frame == Last(stack)
Caller == Front(stack)

\* One undefined symbol of build_dependency's loop: unknown, provided by a
\* component that is a dependency already, or a new dependency to build.
BuildUnknown ==
  LET f == Frame IN
  /\ phase = "build" /\ stack # <<>> /\ f.syms # <<>>
  /\ sym_map[Head(f.syms)] = None
  /\ stack' = Append(Caller, [f EXCEPT !.syms = Tail(@), !.remained = TRUE])
  /\ UNCHANGED <<undef_syms, dependencies>>

BuildKnown ==
  LET f == Frame  d == sym_map[Head(f.syms)] IN
  /\ phase = "build" /\ stack # <<>> /\ f.syms # <<>>
  /\ d # None /\ d \in ToSet(dependencies[f.mod])
  /\ stack' = Append(Caller, [f EXCEPT !.syms = Tail(@)])
  /\ UNCHANGED <<undef_syms, dependencies>>

BuildNew ==
  LET f == Frame  d == sym_map[Head(f.syms)] IN
  /\ phase = "build" /\ stack # <<>> /\ f.syms # <<>>
  /\ d # None /\ d \notin ToSet(dependencies[f.mod])
  /\ dependencies' = [dependencies EXCEPT ![f.mod] = Append(@, d)]
  /\ stack' = Caller \o <<[f EXCEPT !.syms = Tail(@)], Activation(d)>>
  /\ undef_syms' = [undef_syms EXCEPT ![d] = <<>>]

BuildSymbol ==
  /\ BuildUnknown \/ BuildKnown \/ BuildNew
  /\ UNCHANGED <<input, file, sym_map, status, names, phase, outputs>>

\* The end of build_dependency: panic if a symbol remained, or return; main
\* then calls traverse on the top component.
BuildReturn ==
  /\ phase = "build" /\ stack # <<>> /\ Frame.syms = <<>>
  /\ IF Frame.remained
     THEN phase' = "panic: undefined" /\ UNCHANGED <<stack, status>>
     ELSE IF Caller # <<>>
     THEN stack' = Caller /\ UNCHANGED <<phase, status>>
     ELSE /\ phase' = "traverse"
          /\ stack' = <<[mod |-> Top, next |-> 1]>>
          /\ status' = [status EXCEPT ![Top] = "TOUCHED"]
  /\ UNCHANGED <<input, undef_syms, file, sym_map, dependencies, names, outputs>>

\* Mutant: the walk starts over at the first dependency after each return.
TraverseDependRestart ==
  LET f == Frame
      d == dependencies[f.mod][f.next]
      resumed == Append(Caller, [f EXCEPT !.next = 1])
  IN
  /\ phase = "traverse" /\ stack # <<>> /\ f.next <= Len(dependencies[f.mod])
  /\ \/ /\ status[d] = "DONE"
        /\ stack' = resumed
        /\ UNCHANGED <<status, phase, chain>>
     \/ /\ status[d] = "TOUCHED"
        /\ phase' = "panic: cyclic"
        /\ chain' = [i \in DOMAIN stack |-> stack[i].mod] \o <<d>>
        /\ UNCHANGED <<stack, status>>
     \/ /\ status[d] = "INITIAL"
        /\ status' = [status EXCEPT ![d] = "TOUCHED"]
        /\ stack' = Append(resumed, [mod |-> d, next |-> 1])
        /\ UNCHANGED <<phase, chain>>
  /\ UNCHANGED <<input, undef_syms, file, sym_map, dependencies, names, selected,
                 cl_init>>

\* One dependency of traverse's loop: the recursive call returns at once from a
\* component that is done, and panics on one that is only touched.
TraverseDepend ==
  LET f == Frame
      d == dependencies[f.mod][f.next]
      resumed == Append(Caller, [f EXCEPT !.next = @ + 1])
  IN
  /\ phase = "traverse" /\ stack # <<>> /\ f.next <= Len(dependencies[f.mod])
  /\ \/ /\ status[d] = "DONE"
        /\ stack' = resumed
        /\ UNCHANGED <<status, phase, chain>>
     \/ /\ status[d] = "TOUCHED"
        /\ phase' = "panic: cyclic"
        /\ chain' = [i \in DOMAIN stack |-> stack[i].mod] \o <<d>>
        /\ UNCHANGED <<stack, status>>
     \/ /\ status[d] = "INITIAL"
        /\ status' = [status EXCEPT ![d] = "TOUCHED"]
        /\ stack' = Append(resumed, [mod |-> d, next |-> 1])
        /\ UNCHANGED <<phase, chain>>
  /\ UNCHANGED <<input, undef_syms, file, sym_map, dependencies, names, selected,
                 cl_init>>

TraverseReturn ==
  /\ phase = "traverse" /\ stack # <<>>
  /\ Frame.next > Len(dependencies[Frame.mod])
  /\ status' = [status EXCEPT ![Frame.mod] = "DONE"]
  /\ names' = Append(names, Frame.mod)
  /\ stack' = Caller
  /\ UNCHANGED <<input, undef_syms, file, sym_map, dependencies, phase, outputs>>

\* Mutant: the initialisers are written in reverse.
OutputReversed ==
  /\ phase = "traverse" /\ stack = <<>>
  /\ IF Head(names) # Lds
     THEN phase' = "assert: lds first" /\ UNCHANGED <<selected, cl_init>>
     ELSE /\ selected' = Tail(names)
          /\ IF Head(Tail(names)) # Booter
             THEN phase' = "assert: booter second" /\ UNCHANGED cl_init
             ELSE /\ cl_init' = SelectSeq(Reverse(Tail(Tail(names))), LAMBDA m : m # Top)
                  /\ phase' = "ok"
  /\ UNCHANGED <<input, undef_syms, file, sym_map, dependencies, status, stack, names,
                 chain>>

\* Mutant: lds stays in the list of components to link.
OutputKeepsLds ==
  /\ phase = "traverse" /\ stack = <<>>
  /\ IF Head(names) # Lds
     THEN phase' = "assert: lds first" /\ UNCHANGED <<selected, cl_init>>
     ELSE /\ selected' = names
          /\ IF Head(Tail(names)) # Booter
             THEN phase' = "assert: booter second" /\ UNCHANGED cl_init
             ELSE /\ cl_init' = SelectSeq(Tail(Tail(names)), LAMBDA m : m # Top)
                  /\ phase' = "ok"
  /\ UNCHANGED <<input, undef_syms, file, sym_map, dependencies, status, stack, names,
                 chain>>

\* main after traverse: selected.in is written before the second assertion.
Output ==
  /\ phase = "traverse" /\ stack = <<>>
  /\ IF Head(names) # Lds
     THEN phase' = "assert: lds first" /\ UNCHANGED <<selected, cl_init>>
     ELSE /\ selected' = Tail(names)
          /\ IF Head(Tail(names)) # Booter
             THEN phase' = "assert: booter second" /\ UNCHANGED cl_init
             ELSE /\ cl_init' = SelectSeq(Tail(Tail(names)), LAMBDA m : m # Top)
                  /\ phase' = "ok"
  /\ UNCHANGED <<input, undef_syms, file, sym_map, dependencies, status, stack, names,
                 chain>>

Next ==
  \/ DiscoverFile
  \/ AddLdsSymbols
  \/ BuildSymbol
  \/ BuildReturn
  \/ TraverseDepend
  \/ TraverseReturn
  \/ Output

Ended == phase \notin {"discover", "build", "traverse"}

Spec == Init /\ [][Next]_vars /\ WF_vars(Next)
-----------------------------------------------------------------------------
\* Reference definitions, from the component files alone: who provides a symbol,
\* whom a component needs, and what the top component needs in the end.
Provider(s) ==
  LET e == {i \in 1..Len(Files) : s \in exports[Files[i]]} IN
  IF s \in LdsSyms THEN Lds
  ELSE IF e = {} THEN None ELSE Files[CHOOSE i \in e : \A j \in e : j <= i]

Needs(m) == IF m = Lds THEN {} ELSE {Provider(s) : s \in ToSet(undefined[m])}

\* The least set with the top component that is closed under need.
Reached ==
  LET needs == [m \in AllMods |-> Needs(m) \ {None}]
      closed == {S \in SUBSET AllMods : Top \in S /\ \A m \in S : needs[m] \subseteq S}
  IN {m \in AllMods : \A S \in closed : m \in S}

Unresolved == \E m \in Reached : None \in Needs(m)

\* Some of them need one another all round.
Cyclic == \E S \in SUBSET Reached : S # {} /\ \A m \in S : Needs(m) \cap S # {}

\* Type invariant of find_dep's own state.
TypeOK ==
  /\ undef_syms \in [AllMods -> Seq(Symbols)]
  /\ file \in 0..Len(Files)
  /\ sym_map \in [Symbols -> AllMods \cup {None}]
  /\ dependencies \in [AllMods -> Seq(AllMods)]
  /\ status \in [AllMods -> {"INITIAL", "TOUCHED", "DONE"}]
  /\ names \in Seq(AllMods)
  /\ \A i \in DOMAIN stack : stack[i].mod \in AllMods

Before(s, a, b) == \E i, j \in 1..Len(s) : i < j /\ s[i] = a /\ s[j] = b

\* cl_init() initialises a component only after every component whose symbols
\* it uses; booter and the linker script need no initialiser.
InitOrder ==
  cl_init # None =>
    \A m \in ToSet(cl_init) : \A d \in Needs(m) \ {Lds, Booter} : Before(cl_init, d, m)

\* selected.in lists each component the top component needs, directly or not,
\* exactly once, and nothing else: the link has no undefined symbol left.
ImageExact ==
  selected # None =>
    /\ ToSet(selected) = Reached \ {Lds}
    /\ Len(selected) = Cardinality(ToSet(selected))

\* The tool gives up for the right reason only: an undefined symbol somewhere in
\* what is needed, or else a cycle among it; and then the route that the message
\* prints is a dependency path from the top component that ends in a component it
\* has already passed.
PanicsJustified ==
  Ended =>
    /\ phase = "panic: undefined" <=> Unresolved
    /\ phase = "panic: cyclic" <=> ~Unresolved /\ Cyclic
    /\ phase = "panic: cyclic" =>
         LET n == Len(chain) IN
         /\ chain[1] = Top
         /\ \A i \in 1..(n - 1) : chain[i + 1] \in Needs(chain[i])
         /\ \E i \in 1..(n - 1) : chain[i] = chain[n]

\* find_dep always ends, also on cyclic components: build_dependency follows a
\* dependency once, and traverse stops at a component it is still in.
Terminates == <>Ended
=============================================================================
