---------------------------- MODULE MeddlerDriver ----------------------------
(***************************************************************************)
(* meddler's driver (src/src/tools/meddler/meddler.cpp): main() adds the   *)
(* input file, and Meddler::parse() runs a parser per file along the      *)
(* interface's "extends" chain.  Each round of parse()'s do/while loop     *)
(* runs the parser on top of the stack, then, while every run so far has  *)
(* succeeded and the top parser names a parent interface, add_source       *)
(* pushes a fresh parser for "<parent>.if".                                *)
(*                                                                         *)
(* The parser is MeddlerParser: a file's run() is RunFrom on the parser's  *)
(* state, so a parser that is run again continues where it stopped.  The  *)
(* first round is MeddlerParser's RunParser, whose st is kept as the root  *)
(* parser's first run.  The include path is a function from interface     *)
(* names to files; a name outside its domain is a file AddIncludeFile     *)
(* cannot find.  link_to_parent is not defined under src/ and only        *)
(* matters to the emitters, so it changes no modelled state; emit() writes *)
(* files and is left out.                                                  *)
(***************************************************************************)
EXTENDS MeddlerParser

CONSTANTS
  IncludePaths   \* the possible include paths: interface name -> lexemes

VARIABLES
  files,         \* the include path of this run of meddler
  stack,         \* parser_stack: the parsers' states, the newest last
  res,           \* parse()'s res
  dphase         \* "run", "next" (after run, before the loop test), "done"

drvvars == <<files, stack, res, dphase>>
allvars == <<vars, drvvars>>

Top == stack[Len(stack)]

\* parent_interface() returning the base of a missing tree as empty
ParentNoTree(s) == s.tree.base

\* parent_interface(): a placeholder before parse_interface has built a
\* tree, so that the loop goes on and runs a freshly added parser
Parent(s) == IF s.tree.name = "" THEN "<not known yet>" ELSE s.tree.base

\* the loop test without res
LoopGoesNoRes(s) == Parent(s) # ""

\* the condition of the add_source "if" and of the do/while
LoopGoes(s) == res /\ Parent(s) # ""

\* main(): add_source(inputFilename) puts the first parser on the stack
DInit ==
  /\ Init
  /\ files \in IncludePaths
  /\ stack = <<Start(input)>>
  /\ res = TRUE
  /\ dphase = "run"

\* the first round's res &= run(), on the input file
DRunRoot ==
  /\ dphase = "run"
  /\ RunParser
  /\ stack' = <<st'>>
  /\ res' = (res /\ st'.ret)
  /\ dphase' = "next"
  /\ UNCHANGED files

\* a later round's res &= run() on the top parser
DRun ==
  /\ dphase = "run" /\ phase = "done"
  /\ LET s == RunFrom(Top) IN
       /\ stack' = [stack EXCEPT ![Len(stack)] = s]
       /\ res' = (res /\ s.ret)
  /\ dphase' = "next"
  /\ UNCHANGED <<vars, files>>

\* the loop ends: the last run failed or the top interface extends nothing
DExit ==
  /\ dphase = "next"
  /\ ~LoopGoes(Top)
  /\ dphase' = "done"
  /\ UNCHANGED <<vars, files, stack, res>>

\* add_source finds "<parent>.if": a parser is initialised and pushed
DAddSource ==
  /\ dphase = "next"
  /\ LoopGoes(Top)
  /\ Parent(Top) \in DOMAIN files
  /\ stack' = Append(stack, Start(files[Parent(Top)]))
  /\ dphase' = IF LoopGoes(stack'[Len(stack')]) THEN "run" ELSE "done"
  /\ UNCHANGED <<vars, files, res>>

\* add_source does not find it and returns false, which parse() ignores:
\* the while test sees the same parser and goes round again
DAddSourceMissing ==
  /\ dphase = "next"
  /\ LoopGoes(Top)
  /\ Parent(Top) \notin DOMAIN files
  /\ dphase' = "run"
  /\ UNCHANGED <<vars, files, stack, res>>

DNext == DRunRoot \/ DRun \/ DExit \/ DAddSource \/ DAddSourceMissing

\* Before "done" some step is always enabled: in "run" the parser's phase
\* is "init" (DRunRoot) or "done" (DRun), and in "next" the three loop
\* tests cover every case.  So this is ENABLED DNext.
Working == dphase # "done"

\* One thread runs main() to its end, and nothing in parse() blocks: weak
\* fairness of DNext, WF_allvars(DNext) with its ENABLED written out.
DSpec == DInit /\ [][DNext]_allvars /\ ([]<>~Working \/ []<><<DNext>>_allvars)

-----------------------------------------------------------------------------

\* the input and each file along its extends chain is found and parses
RECURSIVE ChainParses(_)
ChainParses(w) ==
  LET s == Run(w) IN
  s.ret /\ (s.tree.base = "" \/ (s.tree.base \in DOMAIN files /\ ChainParses(files[s.tree.base])))

(* parse() returns true exactly when the input and every interface it      *)
(* extends, transitively, is found on the include path and parses.        *)
(* add_source's false is ignored; a missing parent is caught only because *)
(* the loop runs the previous parser again, and that parser, at eof,       *)
(* fails.  A parent added but not yet parsed is caught only because       *)
(* parent_interface() of a parser without a tree is not empty.            *)
ParseResultIsChainResult ==
  dphase = "done" => (res <=> ChainParses(input))

(* parse() returns: the do/while ends for every input and include path    *)
(* without a cyclic extends chain, including after a failed run and after *)
(* an add_source that found nothing.                                       *)
ParseReturns == <>(dphase = "done")

====
