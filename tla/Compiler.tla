------------------------------ MODULE Compiler ------------------------------
(***************************************************************************)
(* The compiler from its source text on (the command line,                 *)
(* crates/nisbac-cli/src/main.rs): the parser, and behind it the phases of *)
(* Driver.                                                                 *)
(***************************************************************************)
EXTENDS Driver, Parser

CONSTANTS
  Documents,        \* the documents that are written in one style or another
  Texts             \* texts of any other origin

VARIABLES
  text, meant       \* the source, and the document it was written from, as an option

all == <<phases, text, meant>>
-----------------------------------------------------------------------------
InitSource ==
  \/ \E d \in Documents, style \in Styles : meant = <<d>> /\ text = Written(d, style)
  \/ meant = <<>> /\ text \in Texts

InitText ==
  /\ InitSource
  /\ tree = Parse(text)
  /\ phase = "parse"
  /\ InitTables(<<>>)

InitCompiler ==
  /\ InitResolver
  /\ \/ InitText
     \/ text = <<>> /\ meant = <<>> /\ InitSchema

NextCompiler == NextPhase /\ UNCHANGED <<text, meant>>

(* One thread runs the phases one after the other. *)
CompilerSpec == InitCompiler /\ [][NextCompiler]_all /\ WF_all(NextCompiler)
-----------------------------------------------------------------------------
(* Names that begin like a builtin type are no names of types: valid_name  *)
(* refuses them, where dsl.md means the names that are a builtin type.     *)
LikeBuiltin(name) ==
  \/ name[1] = "void"
  \/ name[1] \in {"u", "i"} /\ Len(name) > 1 /\ name[2] \in Digits

BareExtern(d) == \E def \in Range(d) : def.kind = "extern" /\ def.ty = <<>>

(***************************************************************************)
(* A document is parsed as it was written: with any white space, comments  *)
(* or none between the tokens, numbers in any base, and those that do not  *)
(* fit a u64 told apart however long they are.  Two documents are not: one *)
(* with an extern without an integer, and one where the name of a type     *)
(* begins like a builtin type.  In one case the parser is asked for more   *)
(* than dsl.md grants: in its grammar white space follows @struct and      *)
(* @packed, and the parser goes without.                                   *)
(***************************************************************************)
WrittenParsed ==
  meant # <<>> /\ phase # "parse" =>
    LET names == NamesDefined(meant[1]) \cup NamesMentioned(meant[1])
    IN  (phase # "ParseError" /\ doc = meant[1])
          <=> ~BareExtern(meant[1]) /\ \A name \in names : ~LikeBuiltin(name)

(***************************************************************************)
(* Nothing of a text is dropped, and nothing added: of any text that is    *)
(* accepted, written in canonical numbers and without comments, the        *)
(* document is written like it, white space apart.  And whatever a text    *)
(* is, what the phases behind the parser are handed is a document.         *)
(***************************************************************************)
NothingLost ==
  text # <<>> /\ phase \notin {"parse", "ParseError"} =>
    /\ doc \in AstDocument
    /\ meant = <<>> =>
         LET Dense(s) == SelectSeq(s, LAMBDA symbol : symbol \notin {" ", "\n"})
         IN  Range(text) \cap {"0", "_", "//", "i", "void"} = {} =>
               Dense(text) = Dense(Written(doc, PlainStyle))

(***************************************************************************)
(* The phases that are modelled come to an end: every text, and every      *)
(* schema, is rejected, or calc_lifetime returns.  It says nothing of the  *)
(* code printed after that, where the generator can panic: gen_ident of    *)
(* the names self, Self, super and crate, which no identifier can have,    *)
(* even a raw one.                                                         *)
(***************************************************************************)
Compiles ==
  <>(\/ phase \in {"ParseError", "ResolveError"}
     \/ result \notin {"running", "ok"}
     \/ Generated
     \/ phase = "generate" /\ kind = "none")
-----------------------------------------------------------------------------
(* dsl.md: "@extern <name>", as in its example "@extern message". *)
ExternParsed == meant # <<>> /\ BareExtern(meant[1]) => phase # "ParseError"
=============================================================================
