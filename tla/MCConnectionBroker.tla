-------------------------- MODULE MCConnectionBroker --------------------------
(***************************************************************************)
(* One provider whose listings replace, revise, remove and restore tools   *)
(* or are refused, two tasks, and at most three connections.               *)
(***************************************************************************)
EXTENDS ConnectionBroker

CONSTANTS m, n

Strict == [required |-> {"q"}, hasProperties |-> TRUE, types |-> [x \in {"q"} |-> "string"],
           additional |-> FALSE]
Open_  == [required |-> {}, hasProperties |-> FALSE, types |-> <<>>, additional |-> TRUE]

MCSchemas == {Strict, Open_}

Imported(name, input, output) == [name |-> name, input |-> input, output |-> output]

MCListings == {<<Imported(m, Strict, NoSchema)>>,
               <<Imported(m, Open_, Strict), Imported(n, Strict, NoSchema)>>,
               <<Imported(n, Open_, BadSchema)>>,
               <<Imported(m, Strict, NoSchema), Imported(Blank, Open_, NoSchema)>>,
               <<Imported(n, Open_, NoSchema), Imported(n, Strict, NoSchema)>>}

Object(fields) == [object |-> TRUE, fields |-> fields]

MCInputs == {Object(<<>>), Object([x \in {"q"} |-> "string"])}

MCPolicy == Providers \X {m}
=============================================================================
