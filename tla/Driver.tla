------------------------------- MODULE Driver -------------------------------
(***************************************************************************)
(* The phases of the compiler (crates/nisbac/src/lib.rs, generate): the    *)
(* document the parser returns is resolved, validated and generated, each  *)
(* phase handed what the one before it has returned.  The validator and    *)
(* the generator may also be given a schema.                               *)
(***************************************************************************)
EXTENDS Lifetimes, Document

VARIABLES
  tree,             \* what the parser makes of the source: the document, in a set, or {}
  phase,            \* the phase that runs, or the Kind of its Error
  doc,              \* what the parser returned; with the next, the variables of Resolver
  at, handle, members, index_acc, ty, depth, assigned, unassigned, cache, unknown, resolution

Resolver == INSTANCE Resolver WITH Documents <- AstDocument, result <- resolution

resolver == <<doc, at, handle, members, index_acc, ty, depth, assigned, unassigned, cache, unknown,
              resolution>>
phases == <<vars, marks, tree, resolver, phase>>

(* parser::parse(src)? *)
ParseText ==
  /\ phase = "parse"
  /\ \/ tree = {} /\ phase' = "ParseError" /\ UNCHANGED doc
     \/ phase' = "resolve" /\ doc' \in tree
  /\ UNCHANGED <<vars, marks, tree, at, handle, members, index_acc, ty, depth, assigned,
                 unassigned, cache, unknown, resolution>>

(* schema::resolve(&doc)? *)
Resolve ==
  /\ phase = "resolve"
  /\ Resolver!Next
  /\ UNCHANGED <<vars, marks, tree, phase>>

ResolveError ==
  /\ phase = "resolve"
  /\ resolution \notin {"running", "ok"}
  /\ phase' = "ResolveError"
  /\ UNCHANGED <<vars, marks, tree, resolver>>

(* Validator::new and Context, with tables for the schema. *)
StartValidator ==
  /\ phase = "resolve"
  /\ resolution = "ok"
  /\ phase' = "validate"
  /\ schema' = assigned
  /\ states' = [h \in DOMAIN assigned |-> "unvisited"]
  /\ bit_width' = [h \in DOMAIN assigned |-> Uninit]
  /\ referrers' = [h \in DOMAIN assigned |-> <<>>]
  /\ rec_sequences' = [h \in DOMAIN assigned |-> FALSE]
  /\ has_lifetime' = [h \in DOMAIN assigned |-> FALSE]
  /\ UNCHANGED <<stack, root, result, kind, source, calls, tree, resolver>>

(* schema::validate(schema)? *)
Validate == phase = "validate" /\ Next /\ UNCHANGED <<marks, tree, resolver, phase>>

(* What to generate is an argument of generate(); the command goes without *)
(* if it is not given.                                                     *)
StartGenerator ==
  /\ phase = "validate"
  /\ result = "ok"
  /\ phase' = "generate"
  /\ kind' \in CodeGenKind \cup {"none"}
  /\ UNCHANGED <<vars, has_lifetime, source, calls, tree, resolver>>

(* back::rust::generate, up to the end of calc_lifetime: what is printed   *)
(* behind it, and the panic of gen_ident there, are left out.              *)
Generate == phase = "generate" /\ CalcLifetime /\ UNCHANGED <<tree, resolver, phase>>
-----------------------------------------------------------------------------
InitResolver == doc = <<>> /\ Resolver!New

InitTables(s) == schema = s /\ New /\ NewMarks /\ kind = "none"

InitSchema ==
  /\ tree = {}
  /\ phase = "validate"
  /\ \E s \in Schemas : InitTables(s)

InitDriver ==
  /\ InitResolver
  /\ \/ tree \in SUBSET AstDocument /\ phase = "parse" /\ InitTables(<<>>)
     \/ InitSchema

NextPhase ==
  ParseText \/ Resolve \/ ResolveError \/ StartValidator \/ Validate \/ StartGenerator
    \/ Generate

(* The safety of the phases, for any documents and schemas. *)
DriverSpec == InitDriver /\ [][NextPhase]_phases
-----------------------------------------------------------------------------
(***************************************************************************)
(* A text never makes the validator panic, nor report what its author has  *)
(* no way to write or to mend: handles that lead nowhere, sequences within *)
(* themselves alone, or ones nobody uses.  The panic is that of a tag of   *)
(* 64 bits.                                                                *)
(***************************************************************************)
ErrorsOfUser ==
  tree # {} /\ phase = "validate" =>
    /\ result \notin {"HandleOutOfRange", "RecursiveStream", "UnusedSequence"}
    /\ result = "panic" => TagOverflows
=============================================================================
