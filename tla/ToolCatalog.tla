----------------------------- MODULE ToolCatalog -----------------------------
(***************************************************************************)
(* The tool catalog of crates/lattice-tools/src/lib.rs as operators on     *)
(* catalog records: ToolCatalog::refresh_provider with the schema registry *)
(* it fills, the lookups, and the input validation of a call.              *)
(*                                                                         *)
(* A tool identifier is the hash of provider and native name, modelled by  *)
(* the pair; a schema revision is the hash of the schema, modelled by the  *)
(* schema; a catalog revision is modelled by the descriptors it hashes.    *)
(***************************************************************************)
EXTENDS Naturals, Sequences, FiniteSets

CONSTANTS
    Providers,    \* ProviderId
    Names,        \* native tool names that are not blank
    Blank,        \* a blank native name
    Semantic,     \* the names a trusted adapter binds to the capability looked for
    Schemas,      \* schemas that pass validate_schema, see Schema
    BadSchema,    \* a schema that is too deep, too large or not an object
    NoSchema      \* no output schema

ASSUME CatalogAssumption ==
    /\ Semantic \subseteq Names
    /\ Blank \notin Names
    /\ {BadSchema, NoSchema} \cap Schemas = {} /\ BadSchema # NoSchema

\* validate_tool_input reads of a schema: the required properties, the types
\* of the properties, whether there are properties at all, and whether
\* additional ones are refused.  An input is an object or not, with the types
\* of the values of its fields.
ValidInput(schema, input) ==
    /\ input.object
    /\ schema.required \subseteq DOMAIN input.fields
    /\ schema.hasProperties =>
          \A name \in DOMAIN input.fields :
              IF name \in DOMAIN schema.types
              THEN schema.types[name] \in {"any", input.fields[name]}
              ELSE schema.additional

Tool == [name: Names \union {Blank}, input: Schemas \union {BadSchema},
         output: Schemas \union {BadSchema, NoSchema}]

Descriptor == [name: Names, input: Schemas, output: Schemas \union {NoSchema}]

Unknown == [input |-> NoSchema, output |-> NoSchema, availability |-> "unknown"]

Catalog == [tools: [Providers \X Names ->
                       {Unknown} \union [input: Schemas, output: Schemas \union {NoSchema},
                                         availability: {"available", "unavailable"}]],
            offered: [Providers -> SUBSET Names],        \* provider_tools
            schemas: SUBSET Schemas,
            revision: [Providers -> SUBSET Descriptor]]

EmptyCatalog == [tools |-> [id \in Providers \X Names |-> Unknown],
                 offered |-> [p \in Providers |-> {}],
                 schemas |-> {},
                 revision |-> [p \in Providers |-> {}]]

\* The import stops at the first tool it refuses; the schemas registered by
\* then stay, the input schema of a tool refused for its output among them.
RefusedDuplicate(listing, i) ==           \* the blank name is let through
    \E j \in 1..i-1 : listing[j].name = listing[i].name

RefusedName(listing, i) ==
    \/ listing[i].name = Blank
    \/ \E j \in 1..i-1 : listing[j].name = listing[i].name

Refused(listing, i) ==
    RefusedName(listing, i) \/ BadSchema \in {listing[i].input, listing[i].output}

AcceptsListing(listing) == \A i \in DOMAIN listing : ~Refused(listing, i)

Registered(listing) ==
    UNION {{listing[i].input, listing[i].output} \ {BadSchema, NoSchema} :
              i \in {i \in DOMAIN listing : /\ \A j \in 1..i-1 : ~Refused(listing, j)
                                            /\ ~RefusedName(listing, i)
                                            /\ listing[i].input # BadSchema}}

Offered(listing) == {listing[i].name : i \in DOMAIN listing}

Revision(listing) == {listing[i] : i \in DOMAIN listing}          \* catalog_revision

RefreshedToolsKeepingRemoved(catalog, p, listing) ==     \* removed tools stay available
    [id \in DOMAIN catalog.tools |->
        IF id[1] = p /\ id[2] \in Offered(listing)
        THEN LET i == CHOOSE i \in DOMAIN listing : listing[i].name = id[2]
             IN  [input |-> listing[i].input, output |-> listing[i].output,
                  availability |-> "available"]
        ELSE catalog.tools[id]]

\* The tools map after the refresh: what the provider offers is replaced,
\* what it no longer offers stays known and becomes unavailable.
RefreshedTools(catalog, p, listing) ==
    [id \in DOMAIN catalog.tools |->
        IF id[1] = p /\ id[2] \in Offered(listing)
        THEN LET i == CHOOSE i \in DOMAIN listing : listing[i].name = id[2]
             IN  [input |-> listing[i].input, output |-> listing[i].output,
                  availability |-> "available"]
        ELSE IF id[1] = p /\ id[2] \in catalog.offered[p] \ Offered(listing)
        THEN [catalog.tools[id] EXCEPT !.availability = "unavailable"]
        ELSE catalog.tools[id]]

RefreshProvider(catalog, p, listing) ==
    IF ~AcceptsListing(listing)
    THEN [catalog EXCEPT !.schemas = @ \union Registered(listing)]
    ELSE [tools |-> RefreshedTools(catalog, p, listing),
          offered |-> [catalog.offered EXCEPT ![p] = Offered(listing)],
          schemas |-> catalog.schemas \union Registered(listing),
          revision |-> [catalog.revision EXCEPT ![p] = Revision(listing)]]

\* search and active_tools list the available tools; get finds any known one.
ActiveTools(catalog) == {id \in DOMAIN catalog.tools : catalog.tools[id].availability = "available"}
Known(catalog, id) == catalog.tools[id] # Unknown

\* DeterministicRouter::resolve among the tools of the providers in connected.
NoTool == <<>>
NoPreference == "no preference"

CandidatesOfAny(catalog, connected, preferred) ==        \* the health filter dropped
    {id \in ActiveTools(catalog) : /\ id[2] \in Semantic
                                   /\ preferred \in {NoPreference, id[1]}}

Candidates(catalog, connected, preferred) ==
    {id \in ActiveTools(catalog) : /\ id[1] \in connected
                                   /\ id[2] \in Semantic
                                   /\ preferred \in {NoPreference, id[1]}}

Route(catalog, connected, preferred) ==
    LET candidates == Candidates(catalog, connected, preferred)
    IN  IF \E id \in candidates : candidates = {id}
        THEN CHOOSE id \in candidates : TRUE
        ELSE NoTool                                      \* none, or ambiguous

\* The tools a search lists are exactly those the providers' last accepted
\* listings offered, in the schemas of those listings, and every schema of a
\* known tool can be looked up: whatever was refused, removed or offered again
\* in between.
CatalogSound(catalog) ==
    /\ ActiveTools(catalog) = {id \in Providers \X Names : id[2] \in catalog.offered[id[1]]}
    /\ \A id \in ActiveTools(catalog) :
          [name |-> id[2], input |-> catalog.tools[id].input, output |-> catalog.tools[id].output]
              \in catalog.revision[id[1]]
    /\ \A id \in DOMAIN catalog.tools :
          Known(catalog, id) =>
              {catalog.tools[id].input, catalog.tools[id].output} \ {NoSchema} \subseteq catalog.schemas
=============================================================================
