------------------------------ MODULE MCVarint ------------------------------
(***************************************************************************)
(* Messages and inputs for the model checker, of every type.               *)
(***************************************************************************)
EXTENDS Varint

(* Values around each power of two, and around the limits of the type: for *)
(* every k the values 2^k - 1, 2^k, 2^k + 1, and their complements.        *)
Edges(width) ==
  LET below == {Bits(k) : k \in 0..width}
      powers == {{k} : k \in Bits(width)} \cup {{0, k} : k \in Bits(width)}
  IN  below \cup powers \cup {Bits(width) \ v : v \in below \cup powers}

(* Values whose encodings have different lengths, for messages of three. *)
Few(width) == {{}, Bits(7), {7}, {width - 1}, Bits(width)}

ValuesOf(width) ==
  {<<>>} \cup {<<v>> : v \in Edges(width)}
    \cup {<<u, v, w>> : u \in Few(width), v \in Few(width), w \in Few(width)}

MCMessages ==
  UNION {[type : {t}, values : ValuesOf(t.width)] : t \in IntType}
-----------------------------------------------------------------------------
Lows == {{}, {0}, {1}, {2}, {3}, {6}, Bits(7)}

(* n bytes of a varint that goes on, and one more. *)
Runs == {[i \in 1..n |-> [low |-> low, more |-> TRUE]] : n \in 0..12, low \in Lows}

MCBytes ==
  Runs \cup {Append(run, [low |-> low, more |-> more]) \o rest :
               run \in Runs, low \in Lows, more \in BOOLEAN,
               rest \in {<<>>, <<[low |-> {0}, more |-> FALSE]>>}}

MCInputs == [type : IntType, bytes : MCBytes]

None == {}
=============================================================================
