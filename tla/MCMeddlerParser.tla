--------------------------- MODULE MCMeddlerParser ---------------------------
(***************************************************************************)
(* IDL files for the parser, each built from the grammar of the parser's   *)
(* "//!" comments and the forms of parse_* together with the AST it        *)
(* describes: a header, then up to MaxDecls declarations of the interface  *)
(* body.  Declarations use names of every lexical kind: builtin types, a   *)
(* type the body may or may not have declared before (t), and names that  *)
(* are never declared.                                                     *)
(***************************************************************************)
EXTENDS MeddlerParser

CONSTANTS MaxDecls

LOCAL SE == INSTANCE SequencesExt

MCDocs == {"##i", "##d"}
MCCardinals == "8" :> 8
MCQualified == {"m.t"}

P(d, ty, r, n) == [Var(d) EXCEPT !.type = ty, !.ref = r, !.name = n]
F(ty, n) == P("none", ty, FALSE, n)
Decl(toks, k, node) == [toks |-> toks, kind |-> k, node |-> node]

Methods == {
  Decl(<<"m", "(", ")", ";">>, "method", Method("m", FALSE)),
  Decl(<<"idempotent", "n", "(", "in", "int32", "x", ",", "t", "&", "y", ")",
         "returns", "(", "int32", "z", ")", ";">>, "method",
       [Method("n", TRUE) EXCEPT !.params = <<P("in", "int32", FALSE, "x"), P("in", "t", TRUE, "y")>>,
                                 !.returns = <<P("out", "int32", FALSE, "z")>>]),
  Decl(<<"m", "(", "out", "int32", "x", ")", "never", "returns",
         "raises", "(", "f", ",", "g", ")", ";">>, "method",
       [Method("m", FALSE) EXCEPT !.params = <<P("out", "int32", FALSE, "x")>>,
                                  !.never = TRUE, !.raises = <<"f", "g">>])}

Exceptions == {
  Decl(<<"exception", "e", "{", "int32", "x", ";", "t", "y", ";", "}">>, "exception",
       [Exception("e") EXCEPT !.fields = <<F("int32", "x"), F("t", "y")>>])}

Types == {
  Decl(<<"type", "int32", "t", ";">>, "type", [TypeNode("type_alias", "t") EXCEPT !.base = "int32"]),
  Decl(<<"enum", "c", "{", "p", ",", "q", "}">>, "type", [TypeNode("enum", "c") EXCEPT !.ids = <<"p", "q">>]),
  Decl(<<"array", "int32", "[", "8", "]", "v", ";">>, "type",
       [TypeNode("array", "v") EXCEPT !.base = "int32", !.count = 8]),
  Decl(<<"range", "p", "..", "q", "r", ";">>, "type", [TypeNode("range", "r") EXCEPT !.start = "p", !.end = "q"]),
  Decl(<<"sequence", "<", "t", "&", ">", "s", ";">>, "type",
       [TypeNode("sequence", "s") EXCEPT !.base = "t", !.ref = TRUE]),
  Decl(<<"set", "<", "int32", ">", "u", ";">>, "type", [TypeNode("set", "u") EXCEPT !.base = "int32"]),
  Decl(<<"record", "w", "{", "m.t", "x", ";", "}">>, "type",
       [TypeNode("record", "w") EXCEPT !.fields = <<F("m.t", "x")>>]),
  Decl(<<"choice", "h", "on", "k", "{", "p", "=>", "int32", ",", "q", "=>", "t", "}">>, "type",
       [TypeNode("choice", "h") EXCEPT !.selector = "k", !.fields = <<F("int32", "p"), F("t", "q")>>])}

\* an autodoc line documents the method or exception it precedes
Documented(d) == [d EXCEPT !.toks = <<"##d">> \o @, !.node.doc = <<"##d">>]
Decls == Methods \cup Exceptions \cup Types \cup {Documented(d) : d \in Methods \cup Exceptions}

Headers == {
  [toks |-> <<"interface", "a">>, tree |-> Interface("a", FALSE, FALSE)],
  [toks |-> <<"local", "final", "interface", "a", "extends", "b">>,
   tree |-> [Interface("a", TRUE, TRUE) EXCEPT !.base = "b"]],
  [toks |-> <<"##i", "final", "interface", "a">>,
   tree |-> [Interface("a", FALSE, TRUE) EXCEPT !.doc = <<"##i">>]]}

\* a body declares each name once
Declares(d) == IF d.kind = "method" THEN {} ELSE {d.node.name}
Bodies == {b \in UNION {[1..n -> Decls] : n \in 0..MaxDecls} :
             \A i, j \in DOMAIN b : i # j => Declares(b[i]) \cap Declares(b[j]) = {}}

Toks(b) == SE!FlattenSeq([i \in DOMAIN b |-> b[i].toks])
Nodes(b, k) == LET sel == SelectSeq(b, LAMBDA d : d.kind = k) IN [i \in DOMAIN sel |-> sel[i].node]

(* How a file's type uses resolve, read off the file as a whole: a use    *)
(* names a builtin, a qualified name, a type that an earlier declaration   *)
(* of the body declares, or else an interface; the last two kinds are the  *)
(* interface's imports, each once, in the order of their first use.  A     *)
(* range alias has no base type: its use is of the empty name.             *)
Declared(b, i) == {b[j].node.name : j \in {j \in 1..(i - 1) : b[j].kind = "type"}}
RefClass(n, decl) ==
  CASE n \in BuiltinTypes -> "builtin" [] n \in MCQualified -> "qualified"
    [] n \in decl -> "local" [] OTHER -> "iref"
Classify(q, decl) == [k \in DOMAIN q |-> [q[k] EXCEPT !.cls = RefClass(q[k].type, decl)]]
TypesOf(q) == [k \in DOMAIN q |-> q[k].type]
\* a declaration's node with its uses classified, and the names it uses
Resolved(d, decl) ==
  CASE d.kind = "method" ->
         [d.node EXCEPT !.params = Classify(@, decl), !.returns = Classify(@, decl)]
    [] d.kind = "exception" \/ d.node.kind \in {"record", "choice"} ->
         [d.node EXCEPT !.fields = Classify(@, decl)]
    [] d.node.kind = "enum" -> d.node
    [] OTHER -> [d.node EXCEPT !.cls = RefClass(d.node.base, decl)]
Uses(d) ==
  CASE d.kind = "method" -> TypesOf(d.node.params) \o TypesOf(d.node.returns)
    [] d.kind = "exception" \/ d.node.kind \in {"record", "choice"} -> TypesOf(d.node.fields)
    [] d.node.kind = "enum" -> <<>>
    [] OTHER -> <<d.node.base>>
Imports(b) ==
  LET used == SE!FlattenSeq([i \in DOMAIN b |->
                 SelectSeq(Uses(b[i]), LAMBDA n : RefClass(n, Declared(b, i)) \in {"qualified", "iref"})])
  IN SE!FoldLeft(LAMBDA acc, n : IF n \in Range(acc) THEN acc ELSE Append(acc, n), <<>>, used)

Files == [h : Headers, b : Bodies]
Source(f) == f.h.toks \o <<"{">> \o Toks(f.b) \o <<"}">>
Tree(f) ==
  LET r == [i \in DOMAIN f.b |-> [f.b[i] EXCEPT !.node = Resolved(f.b[i], Declared(f.b, i))]]
  IN [f.h.tree EXCEPT !.methods = Nodes(r, "method"),
                      !.exceptions = Nodes(r, "exception"),
                      !.types = Nodes(r, "type"),
                      !.imports = Imports(f.b)]

Valid == {Source(f) : f \in Files}
\* every file of the grammar, and every file cut short before its end
MCInputs == UNION {SE!Prefixes(w) : w \in Valid}

\* each file of the grammar with the AST it describes
Described == {<<Source(f), Tree(f)>> : f \in Files}

-----------------------------------------------------------------------------

(* run() accepts every file of the grammar without reporting an error, and  *)
(* builds exactly the AST the file describes: the interface's flags, base  *)
(* and autodoc, and its methods, exceptions and types in order, each with  *)
(* its parameters, directions, references, fields and autodoc, each type    *)
(* use classified by configure_type as the file resolves it, and the       *)
(* interface's imported_types without repeats.  It takes                   *)
(* the lexer's one-token pushback in every maybe/lexback, the shared       *)
(* symbol table turning a declared name into a type, and the               *)
(* parse_* functions leaving the right token for their callers.            *)
DocumentedFilesParsed ==
  phase = "done" /\ input \in Valid =>
    st.ret /\ ~st.err /\ <<input, st.tree>> \in Described

(* run() rejects every file that ends before the interface's closing '}':  *)
(* no loop of the parser treats the end of the input as the end of a list *)
(* or of the interface body.                                               *)
TruncatedFilesRejected ==
  phase = "done" /\ input \notin Valid => ~st.ret

(* After a successful run() the symbol table holds the keywords and        *)
(* builtin types and, beyond them, exactly the interface's name as an      *)
(* interface type, its exceptions as exception types and its type aliases  *)
(* as types: insert_checked is called once for every declaration, with     *)
(* the kind the lexer will return for the name afterwards.                 *)
SymbolTableAgreesWithTree ==
  phase = "done" /\ st.ret =>
    LET t == st.tree
        names(q) == {q[i].name : i \in DOMAIN q}
    IN st.syms = (t.name :> "_interface_type")
                 @@ [n \in names(t.exceptions) |-> "_exception_type"]
                 @@ [n \in names(t.types) |-> "type"]
                 @@ PopulatedSymbols

====
