---------------------------- MODULE MeddlerParser ----------------------------
(***************************************************************************)
(* The recursive-descent parser of meddler, the IDL compiler               *)
(* (src/src/tools/meddler/parser.cpp), over the lexemes of one input file. *)
(* parser_t::run is one step: each parse_* function is an operator from    *)
(* the parser state to the parser state, with .ret the bool it returns.    *)
(*                                                                         *)
(* The lexer is abstracted to its output: the input is a sequence of       *)
(* lexemes (MeddlerLexer checks how characters become them), and lex()     *)
(* turns the next lexeme into a token kind by punctuation, autodoc,        *)
(* cardinal, or symbol-table lookup (lexer.cpp get_identifier).  The       *)
(* symbol table is shared: the parser's insert_checked makes a later       *)
(* lexeme of a declared name lex as a type.  lexer.h and symbol_table.h    *)
(* are not in the repository; lex/lexback/expect/maybe/match and kind()   *)
(* are modelled from their use here and from lexer.cpp's next_kind slot.   *)
(* The AST keeps what the parser stores in it: names, kinds, flags,        *)
(* directions, types and autodoc lines, and configure_type's class of     *)
(* every type use with the interface's imported_types; the emitters are   *)
(* left out.                                                               *)
(***************************************************************************)
EXTENDS Integers, Sequences, Functions, TLC

CONSTANTS
  Inputs,     \* the input files, as sequences of lexemes
  Docs,       \* lexemes that are "##" autodoc lines
  Cardinals,  \* lexemes that are decimal numbers -> their value
  Qualified   \* lexemes that symbols.is_qualified_type_name accepts

VARIABLES
  input,      \* the file being parsed
  phase,      \* "init" before run(), "done" after
  st          \* the parser state after run()

vars == <<input, phase, st>>

NoDoc == <<>>

\* lexer.cpp get_token's one-character punctuation cases and "=>"
Punct ==
  ("{" :> "lbrace") @@ ("}" :> "rbrace") @@ ("(" :> "lparen") @@ (")" :> "rparen") @@
  (";" :> "semicolon") @@ ("," :> "comma") @@ ("&" :> "reference") @@
  ("[" :> "lsquare") @@ ("]" :> "rsquare") @@ ("<" :> "less") @@ (">" :> "greater") @@
  ("=>" :> "dblarrow") @@ ("=" :> "equal")

\* populate_symbol_table
Keywords ==
  ("local" :> "kw_local") @@ ("final" :> "kw_final") @@ ("interface" :> "kw_interface") @@
  ("exception" :> "kw_exception") @@ ("in" :> "kw_in") @@ ("inout" :> "kw_inout") @@
  ("out" :> "kw_out") @@ ("idempotent" :> "kw_idempotent") @@ ("raises" :> "kw_raises") @@
  ("extends" :> "kw_extends") @@ ("never" :> "kw_never") @@ ("returns" :> "kw_returns") @@
  ("type" :> "kw_type") @@ ("sequence" :> "kw_sequence") @@ ("set" :> "kw_set") @@
  ("range" :> "kw_range") @@ ("record" :> "kw_record") @@ ("choice" :> "kw_choice") @@
  ("on" :> "kw_on") @@ ("enum" :> "kw_enum") @@ ("array" :> "kw_array") @@ (".." :> "dotdot")
BuiltinTypes == {"int8", "int16", "int32", "int64", "octet", "card16", "card32", "card64",
                 "float", "double", "boolean", "string", "opaque"}
PopulatedSymbols == Keywords @@ [b \in BuiltinTypes |-> "_builtin_type"]

\* symbol_table_t::kind as the parser sees it: a builtin, interface,
\* exception or declared type name lexes as token::type
TypeKinds == {"type", "_builtin_type", "_interface_type", "_exception_type"}
TokenKind(k) == IF k \in TypeKinds THEN "type" ELSE k

\* the token kind of a lexeme under symbol table syms
KindOf(syms, w) ==
  IF w \in DOMAIN Punct THEN Punct[w]
  ELSE IF w \in Docs THEN "autodoc"
  ELSE IF w \in DOMAIN Cardinals THEN "cardinal"
  ELSE IF w \in DOMAIN syms THEN TokenKind(syms[w])
  ELSE "identifier"

-----------------------------------------------------------------------------
(* The AST nodes (ast.h): alias_t and parameter_t, the alias subclasses,   *)
(* method_t, interface_t.                                                  *)

\* cls: "none" until configure_type marks the alias builtin, local, an
\* interface reference ("iref"), or leaves it unmarked as a "qualified" import
Var(d) == [dir |-> d, type |-> "", ref |-> FALSE, name |-> "", doc |-> NoDoc, cls |-> "none"]
TypeNode(k, n) == [kind |-> k, name |-> n, base |-> "", ref |-> FALSE, cls |-> "none", fields |-> <<>>,
                   ids |-> <<>>, start |-> "", end |-> "", count |-> 0, selector |-> ""]
Exception(n) == [name |-> n, doc |-> NoDoc, fields |-> <<>>]
Method(n, idem) == [name |-> n, doc |-> NoDoc, idem |-> idem, params |-> <<>>,
                    returns |-> <<>>, never |-> FALSE, raises |-> <<>>]
Interface(n, l, f) == [name |-> n, local |-> l, final |-> f, base |-> "", doc |-> NoDoc,
                       types |-> <<>>, exceptions |-> <<>>, methods |-> <<>>, imports |-> <<>>]

\* parser_t after init(): the lexer at the first lexeme, nothing pushed
\* back, the flags and the autodoc buffer clear; the scratch fields hold
\* the node or vector a parse function is filling
Start(w) ==
  [w |-> w, pos |-> 1, cur |-> "none", next |-> "none", text |-> "",
   syms |-> PopulatedSymbols, ret |-> FALSE, err |-> FALSE, doc |-> <<>>,
   local |-> FALSE, final |-> FALSE, idem |-> FALSE, tree |-> Interface("", FALSE, FALSE),
   var |-> Var("none"), fields |-> <<>>, params |-> <<>>, ids |-> <<>>,
   m |-> Method("", FALSE), texts |-> <<>>]

-----------------------------------------------------------------------------
(* The lexer as the parser drives it.                                      *)

\* lex() that moves cur_ptr past the terminating NUL at the end
LexPastEnd(s) ==
  IF s.next # "none" THEN [s EXCEPT !.cur = s.next, !.next = "none"]
  ELSE IF s.pos > Len(s.w) THEN [s EXCEPT !.cur = "eof", !.text = "", !.pos = s.pos + 1]
  ELSE [s EXCEPT !.cur = KindOf(s.syms, s.w[s.pos]), !.text = s.w[s.pos], !.pos = s.pos + 1]

\* lex(): the pushed-back kind if there is one (get_token's next_kind),
\* else the next lexeme; at the end eof, and cur_ptr stays put
Lex(s) ==
  IF s.next # "none" THEN [s EXCEPT !.cur = s.next, !.next = "none"]
  ELSE IF s.pos > Len(s.w) THEN [s EXCEPT !.cur = "eof", !.text = ""]
  ELSE [s EXCEPT !.cur = KindOf(s.syms, s.w[s.pos]), !.text = s.w[s.pos], !.pos = s.pos + 1]

\* one step of a parse function, its resulting state named t for the rest
\* of the function (the statements after the call in the C++ body)
Bind(t, K(_)) == K(t)

LexBack(s) == [s EXCEPT !.next = s.cur]
Match(s, k) == s.cur = k
Expect(s, k) == Bind(Lex(s), LAMBDA t : [t EXCEPT !.ret = (t.cur = k)])
Maybe(s, k) ==
  Bind(Lex(s), LAMBDA t :
    IF t.cur = k THEN [t EXCEPT !.ret = TRUE] ELSE [LexBack(t) EXCEPT !.ret = FALSE])

Ok(s) == [s EXCEPT !.ret = TRUE]
Fail(s) == [s EXCEPT !.ret = FALSE]
\* PARSE_ERROR(...); return false;
Error(s) == [s EXCEPT !.ret = FALSE, !.err = TRUE]

\* a run of "if (!lex.expect(k)) { PARSE_ERROR(...); return false; }",
\* recording current_token() after each
RECURSIVE ExpectAll(_, _)
ExpectAll(s, ks) ==
  IF ks = <<>> THEN Ok(s)
  ELSE Bind(Expect(s, Head(ks)), LAMBDA t :
       IF ~t.ret THEN Error(t)
       ELSE ExpectAll([t EXCEPT !.texts = Append(@, t.text)], Tail(ks)))

\* symbols.insert_checked(name, kind): false if the name is there already
InsertChecked(s, n, k) ==
  IF n \in DOMAIN s.syms THEN Error(s)
  ELSE Ok([s EXCEPT !.syms = (n :> k) @@ s.syms])

\* append_autodoc: the autodoc buffer, its lines kept as a sequence
AppendAutodoc(s) == [s EXCEPT !.doc = Append(@, s.text)]

AddType(s, t) == InsertChecked([s EXCEPT !.tree.types = Append(@, t)], t.name, "type")

\* configure_type's classification of type name n: a builtin by its symbol
\* kind, a fully qualified name, a type the interface has added before this
\* use (types_lookup), else an interface reference
TypeClass(s, n) ==
  CASE n \in DOMAIN s.syms /\ s.syms[n] = "_builtin_type"        -> "builtin"
    [] n \in Qualified                                            -> "qualified"
    [] \E i \in DOMAIN s.tree.types : s.tree.types[i].name = n    -> "local"
    [] OTHER                                                      -> "iref"

\* configure_type's effect on the interface: a qualified name or an
\* interface reference joins imported_types unless imported_types_lookup
\* finds it there
ConfigureType(s, n) ==
  IF TypeClass(s, n) \in {"qualified", "iref"} /\ n \notin Range(s.tree.imports)
  THEN [s EXCEPT !.tree.imports = Append(@, n)] ELSE s

-----------------------------------------------------------------------------
(* Declarations: parse_type_decl, parse_var_decl, parse_field,             *)
(* parse_argument and the loops over them.                                 *)

\* typeid [reference]: a type, or an identifier not (yet) known as one,
\* then configure_type on the alias
ParseTypeDecl(s) ==
  Bind(Expect(s, "type"), LAMBDA a :
  IF ~a.ret /\ ~Match(a, "identifier") THEN Error(a)
  ELSE Bind(Maybe([a EXCEPT !.var.type = a.text], "reference"), LAMBDA b :
       Ok(ConfigureType([b EXCEPT !.var.ref = b.ret \/ @,
                                  !.var.cls = TypeClass(b, a.text)], a.text))))

\* var_decl ::= [autodoc] typeid [reference] id
ParseVarDecl(s) ==
  Bind(Maybe(s, "autodoc"), LAMBDA a :
  Bind(ParseTypeDecl(a), LAMBDA b :
  IF ~b.ret THEN b
  ELSE Bind(Expect(b, "identifier"), LAMBDA c :
       IF ~c.ret THEN Error(c)
       ELSE Ok([c EXCEPT !.var.name = c.text,
                         !.var.doc = IF a.ret THEN <<a.text>> ELSE NoDoc]))))

ParseField(s) ==
  Bind(ParseVarDecl([s EXCEPT !.var = Var("none")]), LAMBDA a :
  IF ~a.ret THEN a
  ELSE Bind(Expect(a, "semicolon"), LAMBDA b :
       IF ~b.ret THEN Error(b) ELSE Ok([b EXCEPT !.fields = Append(@, b.var)])))

\* field_list ::= (var_decl ';')*  up to, not past, the '}'
RECURSIVE ParseFieldList(_)
ParseFieldList(s) ==
  Bind(Lex(s), LAMBDA a :
  IF a.cur = "rbrace" THEN Ok(LexBack(a))
  ELSE Bind(ParseField(LexBack(a)), LAMBDA b : IF ~b.ret THEN b ELSE ParseFieldList(b)))

\* the direction keyword of an argument, if any
Direction(a, b, c, dflt) ==
  CASE a.ret -> "in" [] b.ret -> "out" [] c.ret -> "inout" [] OTHER -> dflt

\* [in|out|inout] var_decl, then ',' or a ')' left for the caller
ParseArgument(s, dflt) ==
  Bind(Maybe(s, "kw_in"), LAMBDA a :
  Bind(IF a.ret THEN a ELSE Maybe(a, "kw_out"), LAMBDA b :
  Bind(IF b.ret THEN b ELSE Maybe(b, "kw_inout"), LAMBDA c :
  Bind(ParseVarDecl([c EXCEPT !.var = Var(Direction(a, b, c, dflt))]), LAMBDA v :
  IF ~v.ret THEN v
  ELSE Bind(Expect([v EXCEPT !.params = Append(@, v.var)], "comma"), LAMBDA e :
       IF e.ret THEN Ok(e)
       ELSE IF Match(e, "rparen") THEN Ok(LexBack(e))
       ELSE Error(e))))))

RECURSIVE ParseArgumentList(_, _)
ParseArgumentList(s, dflt) ==
  Bind(Lex(s), LAMBDA a :
  IF a.cur = "rparen" THEN Ok(LexBack(a))
  ELSE Bind(ParseArgument(LexBack(a), dflt), LAMBDA b :
       IF ~b.ret THEN b ELSE ParseArgumentList(b, dflt)))

\* id (',' id)* ending before delim; the loop itself stops at a ')'
RECURSIVE ParseIdList(_, _)
ParseIdList(s, delim) ==
  Bind(Lex(s), LAMBDA a :
  IF a.cur = "rparen" THEN Ok(LexBack(a))
  ELSE Bind(Expect(LexBack(a), "identifier"), LAMBDA b :
  IF ~b.ret THEN Error(b)
  ELSE Bind(Expect([b EXCEPT !.ids = Append(@, b.text)], "comma"), LAMBDA c :
       IF c.ret THEN ParseIdList(c, delim)
       ELSE IF Match(c, delim) THEN Ok(LexBack(c))
       ELSE Error(c))))

-----------------------------------------------------------------------------
(* Methods: parse_method, parse_method_returns, parse_method_raises.       *)

ParseMethodReturns(s) ==
  IF Match(s, "kw_never") THEN
    Bind(Expect(s, "kw_returns"), LAMBDA a :
    IF ~a.ret THEN Error(a) ELSE Ok([a EXCEPT !.m.returns = <<>>, !.m.never = TRUE]))
  ELSE IF ~Match(s, "kw_returns") THEN Fail(s)
  ELSE Bind(Expect(s, "lparen"), LAMBDA a :
  IF ~a.ret THEN Error(a)
  ELSE Bind(ParseArgumentList([a EXCEPT !.params = <<>>], "out"), LAMBDA b :
  IF ~b.ret THEN b
  ELSE Bind(Expect([b EXCEPT !.m.returns = b.params], "rparen"), LAMBDA c :
       IF ~c.ret THEN Error(c) ELSE Ok(c))))

ParseMethodRaises(s) ==
  IF ~Match(s, "kw_raises") THEN Fail(s)
  ELSE Bind(Expect(s, "lparen"), LAMBDA a :
  IF ~a.ret THEN Error(a)
  ELSE Bind(ParseIdList([a EXCEPT !.ids = <<>>], "rparen"), LAMBDA b :
  IF ~b.ret THEN b
  ELSE Bind(Expect([b EXCEPT !.m.raises = b.ids], "rparen"), LAMBDA c :
       IF ~c.ret THEN Error(c) ELSE Ok(c))))

\* the tail of parse_method after the argument list's '(':
\* ')' [returns '(' args ')' | never returns] [raises '(' ids ')'] ';'
MethodTail(b) ==
  IF ~b.ret THEN b
  ELSE Bind(Expect([b EXCEPT !.m.params = b.params], "rparen"), LAMBDA c :
  IF ~c.ret THEN Error(c)
  ELSE Bind(Maybe(c, "kw_returns"), LAMBDA r :
  Bind(IF r.ret THEN r ELSE Maybe(r, "kw_never"), LAMBDA n :
  Bind(IF n.ret THEN ParseMethodReturns(n) ELSE Ok(n), LAMBDA d :
  IF ~d.ret THEN d
  ELSE Bind(Maybe(d, "kw_raises"), LAMBDA e :
  Bind(IF e.ret THEN ParseMethodRaises(e) ELSE Ok(e), LAMBDA f :
  IF ~f.ret THEN f
  ELSE Bind(Expect(f, "semicolon"), LAMBDA g :
       IF g.ret THEN Ok([g EXCEPT !.tree.methods = Append(@, g.m)]) ELSE Fail(g))))))))

\* [idempotent] id '(' args ')' ... ';'  -- the method takes the autodoc buffer
\* parse_method without is_idempotent = false once the method is built
RECURSIVE ParseMethodIdemLeak(_)
ParseMethodIdemLeak(s) ==
  IF Match(s, "kw_idempotent") THEN ParseMethodIdemLeak(Lex([s EXCEPT !.idem = TRUE]))
  ELSE IF ~Match(s, "identifier") THEN Fail(s)
  ELSE Bind(Expect(s, "lparen"), LAMBDA a :
  IF ~a.ret THEN Error(a)
  ELSE MethodTail(ParseArgumentList([a EXCEPT !.m = [Method(s.text, a.idem) EXCEPT !.doc = a.doc],
                                              !.doc = <<>>, !.params = <<>>], "in")))

RECURSIVE ParseMethod(_)
ParseMethod(s) ==
  IF Match(s, "kw_idempotent") THEN ParseMethod(Lex([s EXCEPT !.idem = TRUE]))
  ELSE IF ~Match(s, "identifier") THEN Fail(s)
  ELSE Bind(Expect(s, "lparen"), LAMBDA a :
  IF ~a.ret THEN Error(a)
  ELSE MethodTail(ParseArgumentList([a EXCEPT !.m = [Method(s.text, a.idem) EXCEPT !.doc = a.doc],
                                              !.doc = <<>>, !.idem = FALSE, !.params = <<>>], "in")))

-----------------------------------------------------------------------------
(* Exceptions and type aliases.  The field and choice lists' results are   *)
(* not looked at by their callers, as in the code.                         *)

\* exception ::= 'exception' id '{' field_list '}'
ParseException(s) ==
  IF ~Match(s, "kw_exception") THEN Fail(s)
  ELSE Bind(Expect(s, "identifier"), LAMBDA a :
  IF ~a.ret THEN Error(a)
  ELSE Bind(Expect([a EXCEPT !.doc = <<>>], "lbrace"), LAMBDA b :
  IF ~b.ret THEN Error(b)
  ELSE Bind(Expect(ParseFieldList([b EXCEPT !.fields = <<>>]), "rbrace"), LAMBDA d :
  IF ~d.ret THEN Error(d)
  ELSE InsertChecked([d EXCEPT !.tree.exceptions =
                        Append(@, [Exception(a.text) EXCEPT !.doc = a.doc, !.fields = d.fields])],
                     a.text, "_exception_type"))))

\* typedef ::= 'type' id id ';'
ParseTypeAlias(s) ==
  IF ~Match(s, "kw_type") THEN Fail(s)
  ELSE Bind(ParseTypeDecl([s EXCEPT !.var = Var("none")]), LAMBDA a :
  IF ~a.ret THEN Error(a)
  ELSE Bind(ExpectAll([a EXCEPT !.texts = <<>>], <<"identifier", "semicolon">>), LAMBDA b :
  IF ~b.ret THEN b
  ELSE AddType(b, [TypeNode("type_alias", b.texts[1]) EXCEPT !.base = a.var.type, !.ref = a.var.ref,
                                                              !.cls = a.var.cls])))

\* 'range' id '..' id id ';'  -- range_alias_t leaves type() empty, and
\* configure_type is called on it all the same
ParseRangeTypeAlias(s) ==
  IF ~Match(s, "kw_range") THEN Fail(s)
  ELSE Bind(ExpectAll([s EXCEPT !.texts = <<>>],
                      <<"identifier", "dotdot", "identifier", "identifier", "semicolon">>), LAMBDA a :
  IF ~a.ret THEN a
  ELSE AddType(ConfigureType(a, ""), [TypeNode("range", a.texts[4]) EXCEPT !.start = a.texts[1],
                                        !.end = a.texts[3], !.cls = TypeClass(a, "")]))

\* 'sequence' '<' typeid [reference] '>' id ';'
ParseSequenceTypeAlias(s) ==
  IF ~Match(s, "kw_sequence") THEN Fail(s)
  ELSE Bind(Expect(s, "less"), LAMBDA a :
  IF ~a.ret THEN Error(a)
  ELSE Bind(ParseTypeDecl([a EXCEPT !.var = Var("none")]), LAMBDA b :
  IF ~b.ret THEN Error(b)
  ELSE Bind(ExpectAll([b EXCEPT !.texts = <<>>], <<"greater", "identifier", "semicolon">>), LAMBDA c :
  IF ~c.ret THEN c
  ELSE AddType(c, [TypeNode("sequence", c.texts[2]) EXCEPT !.base = b.var.type, !.ref = b.var.ref,
                                                            !.cls = b.var.cls]))))

\* 'set' '<' type '>' id ';'
ParseSetTypeAlias(s) ==
  IF ~Match(s, "kw_set") THEN Fail(s)
  ELSE Bind(ExpectAll([s EXCEPT !.texts = <<>>],
                      <<"less", "type", "greater", "identifier", "semicolon">>), LAMBDA a :
  IF ~a.ret THEN a
  ELSE AddType(ConfigureType(a, a.texts[2]), [TypeNode("set", a.texts[4]) EXCEPT !.base = a.texts[2],
                                                 !.cls = TypeClass(a, a.texts[2])]))

\* 'record' id '{' field_list '}'
ParseRecordTypeAlias(s) ==
  IF ~Match(s, "kw_record") THEN Fail(s)
  ELSE Bind(ExpectAll([s EXCEPT !.texts = <<>>], <<"identifier", "lbrace">>), LAMBDA a :
  IF ~a.ret THEN a
  ELSE Bind(Expect(ParseFieldList([a EXCEPT !.fields = <<>>]), "rbrace"), LAMBDA d :
  IF ~d.ret THEN Error(d)
  ELSE AddType(d, [TypeNode("record", a.texts[1]) EXCEPT !.fields = d.fields])))

\* choice_decl ::= id '=>' type_decl, then ',' or a '}' left for the caller
ParseChoiceDecl(s) ==
  Bind(ExpectAll([s EXCEPT !.texts = <<>>], <<"identifier", "dblarrow">>), LAMBDA a :
  IF ~a.ret THEN a
  ELSE Bind(ParseTypeDecl([a EXCEPT !.var = Var("none")]), LAMBDA b :
  IF ~b.ret THEN b
  ELSE Bind(Expect([b EXCEPT !.fields = Append(@, [b.var EXCEPT !.name = a.texts[1]])], "comma"), LAMBDA c :
       IF c.ret THEN Ok(c)
       ELSE IF Match(c, "rbrace") THEN Ok(LexBack(c))
       ELSE Error(c))))

RECURSIVE ParseChoiceList(_)
ParseChoiceList(s) ==
  Bind(Lex(s), LAMBDA a :
  IF a.cur = "rbrace" THEN Ok(LexBack(a))
  ELSE Bind(ParseChoiceDecl(LexBack(a)), LAMBDA b : IF ~b.ret THEN b ELSE ParseChoiceList(b)))

\* 'choice' id 'on' id '{' choice_list '}'
ParseChoiceTypeAlias(s) ==
  IF ~Match(s, "kw_choice") THEN Fail(s)
  ELSE Bind(ExpectAll([s EXCEPT !.texts = <<>>], <<"identifier", "kw_on", "identifier", "lbrace">>), LAMBDA a :
  IF ~a.ret THEN a
  ELSE Bind(Expect(ParseChoiceList([a EXCEPT !.fields = <<>>]), "rbrace"), LAMBDA d :
  IF ~d.ret THEN Error(d)
  ELSE AddType(d, [TypeNode("choice", a.texts[1]) EXCEPT !.selector = a.texts[3], !.fields = d.fields])))

\* parse_enum_type_alias adding the type without insert_checked
ParseEnumNotInserted(s) ==
  IF ~Match(s, "kw_enum") THEN Fail(s)
  ELSE Bind(ExpectAll([s EXCEPT !.texts = <<>>], <<"identifier", "lbrace">>), LAMBDA a :
  IF ~a.ret THEN a
  ELSE Bind(ParseIdList([a EXCEPT !.ids = <<>>], "rbrace"), LAMBDA b :
  IF ~b.ret THEN b
  ELSE Bind(Expect(b, "rbrace"), LAMBDA c :
  IF ~c.ret THEN Error(c)
  ELSE Ok([c EXCEPT !.tree.types = Append(@, [TypeNode("enum", a.texts[1]) EXCEPT !.ids = b.ids])]))))

\* 'enum' id '{' id (',' id)* '}'
ParseEnumTypeAlias(s) ==
  IF ~Match(s, "kw_enum") THEN Fail(s)
  ELSE Bind(ExpectAll([s EXCEPT !.texts = <<>>], <<"identifier", "lbrace">>), LAMBDA a :
  IF ~a.ret THEN a
  ELSE Bind(ParseIdList([a EXCEPT !.ids = <<>>], "rbrace"), LAMBDA b :
  IF ~b.ret THEN b
  ELSE Bind(Expect(b, "rbrace"), LAMBDA c :
  IF ~c.ret THEN Error(c)
  ELSE AddType(c, [TypeNode("enum", a.texts[1]) EXCEPT !.ids = b.ids]))))

\* 'array' type '[' cardinal ']' id ';'
ParseArrayTypeAlias(s) ==
  IF ~Match(s, "kw_array") THEN Fail(s)
  ELSE Bind(ExpectAll([s EXCEPT !.texts = <<>>],
                 <<"type", "lsquare", "cardinal", "rsquare", "identifier", "semicolon">>), LAMBDA a :
  IF ~a.ret THEN a
  ELSE AddType(ConfigureType(a, a.texts[1]), [TypeNode("array", a.texts[5]) EXCEPT !.base = a.texts[1],
                                   !.count = Cardinals[a.texts[3]], !.cls = TypeClass(a, a.texts[1])]))

-----------------------------------------------------------------------------
(* The interface and the file.                                             *)

\* the switch of parse_interface_body on a declaration's first token
Declaration(s) ==
  CASE s.cur = "kw_exception" -> ParseException(s)
    [] s.cur = "kw_enum"      -> ParseEnumTypeAlias(s)
    [] s.cur = "kw_array"     -> ParseArrayTypeAlias(s)
    [] s.cur = "kw_range"     -> ParseRangeTypeAlias(s)
    [] s.cur = "kw_sequence"  -> ParseSequenceTypeAlias(s)
    [] s.cur = "kw_set"       -> ParseSetTypeAlias(s)
    [] s.cur = "kw_record"    -> ParseRecordTypeAlias(s)
    [] s.cur = "kw_choice"    -> ParseChoiceTypeAlias(s)
    [] s.cur = "kw_type"      -> ParseTypeAlias(s)
    [] s.cur \in {"kw_idempotent", "identifier"} -> ParseMethod(s)
    [] OTHER                  -> Error(s)   \* "Invalid token encountered."

\* interface_body ::= (exception | typealias | full_method_decl)*  up to '}'
RECURSIVE ParseInterfaceBody(_)
ParseInterfaceBody(s) ==
  Bind(Lex(s), LAMBDA a :
  IF a.cur = "eof" THEN Fail(a)
  ELSE IF a.cur = "rbrace" THEN Ok(LexBack(a))
  ELSE IF a.cur = "autodoc" THEN ParseInterfaceBody(AppendAutodoc(a))
  ELSE Bind(Declaration(a), LAMBDA b : IF ~b.ret THEN b ELSE ParseInterfaceBody(b)))

\* ('local' | 'final')* 'interface' id ['extends' id] '{' interface_body '}'
RECURSIVE ParseInterface(_)
ParseInterface(s) ==
  IF Match(s, "kw_local") THEN ParseInterface(Lex([s EXCEPT !.local = TRUE]))
  ELSE IF Match(s, "kw_final") THEN ParseInterface(Lex([s EXCEPT !.final = TRUE]))
  ELSE IF ~Match(s, "kw_interface") THEN Error(s)   \* "unexpected"
  ELSE Bind(Expect(s, "identifier"), LAMBDA a :
  IF ~a.ret THEN Fail(a)
  ELSE Bind(InsertChecked([a EXCEPT !.tree = [Interface(a.text, a.local, a.final) EXCEPT !.doc = a.doc],
                                    !.doc = <<>>], a.text, "_interface_type"), LAMBDA b :
  IF ~b.ret THEN b
  ELSE Bind(Maybe(b, "kw_extends"), LAMBDA c :
  Bind(IF c.ret THEN Lex(c) ELSE c, LAMBDA d :
  IF c.ret /\ d.cur # "identifier" THEN Error(d)
  ELSE Bind(Expect(IF c.ret THEN [d EXCEPT !.tree.base = d.text] ELSE d, "lbrace"), LAMBDA e :
  IF ~e.ret THEN Error(e)
  ELSE Bind(ParseInterfaceBody(e), LAMBDA f :
  IF ~f.ret THEN f
  ELSE Bind(Expect(f, "rbrace"), LAMBDA g : IF g.ret THEN Ok(g) ELSE Error(g))))))))

\* the loop of parse_top_level_entities: autodoc lines, then one interface
\* the top-level loop taking an empty file as a successful parse
RECURSIVE TopLevelLoopEofOk(_)
TopLevelLoopEofOk(s) ==
  CASE s.cur \in {"kw_local", "kw_final", "kw_interface"} -> ParseInterface(s)
    [] s.cur = "autodoc" -> TopLevelLoopEofOk(Lex(AppendAutodoc(s)))
    [] s.cur = "eof" -> Ok(s)
    [] OTHER -> Fail(s)

RECURSIVE TopLevelLoop(_)
TopLevelLoop(s) ==
  CASE s.cur \in {"kw_local", "kw_final", "kw_interface"} -> ParseInterface(s)
    [] s.cur = "autodoc" -> TopLevelLoop(Lex(AppendAutodoc(s)))
    [] OTHER -> Fail(s)

ParseTopLevelEntities(s) == TopLevelLoop([s EXCEPT !.local = FALSE, !.final = FALSE])

\* run(): prime the lexer and parse, from wherever the parser stands
RunFrom(s) == ParseTopLevelEntities(Lex(s))

\* init() on file w, then run()
Run(w) == RunFrom(Start(w))

-----------------------------------------------------------------------------

\* parser_t::init on one of the files
Init ==
  /\ input \in Inputs
  /\ phase = "init"
  /\ st = Start(input)

\* parser_t::run
RunParser ==
  /\ phase = "init"
  /\ phase' = "done"
  /\ st' = Run(input)
  /\ UNCHANGED input

Next == RunParser

Spec == Init /\ [][Next]_vars

-----------------------------------------------------------------------------

TokenKinds == {Punct[p] : p \in DOMAIN Punct} \cup {Keywords[k] : k \in DOMAIN Keywords}
              \cup {"none", "eof", "autodoc", "cardinal", "type", "identifier"}
Directions == {"in", "out", "inout"}

TypeOK ==
  /\ phase \in {"init", "done"}
  /\ st.w = input
  /\ st.pos \in 1..(Len(input) + 1)
  /\ {st.cur, st.next} \subseteq TokenKinds
  /\ st.ret \in BOOLEAN /\ st.err \in BOOLEAN
  /\ \A i \in DOMAIN st.tree.methods :
       LET m == st.tree.methods[i] IN
       \A j \in DOMAIN m.params \cup DOMAIN m.returns :
         {m.params[k].dir : k \in DOMAIN m.params} \cup {m.returns[k].dir : k \in DOMAIN m.returns}
           \subseteq Directions

====
