----------------------------- MODULE TomlDecode ------------------------------
(***************************************************************************)
(* How src/src/third/toml/decode.go puts a mapping into common.G, the      *)
(* configuration of src/src/common/et_config.go.  A Go map is walked in    *)
(* any order, and a key that matches no field exactly is compared without  *)
(* regard to case: of two keys for one field the last one walked wins.     *)
(* Decoding goes into what the configuration was before.                   *)
(*                                                                         *)
(* A name is one letter, in a file: S for Server, T for                    *)
(* ConnectionTimeoutSec, and so on.                                        *)
(***************************************************************************)
EXTENDS TomlParser

String(key) == [key |-> key, type |-> "String"]
Integer64(key) == [key |-> key, type |-> "Integer"]

\* The fields of the two structs, each with its key and its type.
Fields ==
    [Server |->
        [LogConfigFile |-> String("L"), BindAddress |-> String("B"), DebugBindAddress |-> String("D"),
         ConnectionTimeoutSec |-> Integer64("T"), KeepAliveTimeSec |-> Integer64("K"),
         PrivateKeyFilePath |-> String("P")],
     Client |->
        [LogConfigFile |-> String("L"), BindAddress |-> String("B"), DebugBindAddress |-> String("D"),
         ServerAddress |-> String("S"), PublicKeyFilePath |-> String("P")]]
SectionKey == [Basic |-> "B", Server |-> "S", Client |-> "C"]

\* var G: empty strings and zeros.
ZeroConfig ==
    [s \in DOMAIN Fields |->
        [f \in DOMAIN Fields[s] |-> IF Fields[s][f].type = "String" THEN <<>> ELSE 0]]

LowerCase == [B |-> "b", C |-> "c", D |-> "d", K |-> "k", L |-> "l", P |-> "p", S |-> "s",
              T |-> "t", Z |-> "z"]
EqualFold(name, key) == name = <<key>> \/ name = <<LowerCase[key]>>

Matching_Exactly(mapping, path, key) ==
    {at \in DOMAIN mapping : Len(at) = Len(path) + 1 /\ Front(at) = path /\ Last(at) = <<<<key>>, 0>>}
\* The keys of the table at path that are decoded into the field called key.
Matching(mapping, path, key) ==
    {at \in DOMAIN mapping : /\ Len(at) = Len(path) + 1 /\ Front(at) = path
                             /\ Last(at)[2] = 0 /\ EqualFold(Last(at)[1], key)}

\* The keys of a section's field, in the tables of that section.
Sections(mapping, s) == Matching(mapping, <<>>, SectionKey[s])
Keys(mapping, s, f) ==
    UNION {Matching(mapping, table, Fields[s][f].key) : table \in Sections(mapping, s)}

\* unifyString, unifyInt; unifyStruct for a section, which takes no array of tables.
Mismatch(mapping) ==
    \/ \E s \in DOMAIN SectionKey : \E at \in Sections(mapping, s) : mapping[at].type # "Hash"
    \/ \E s \in DOMAIN Fields : \E f \in DOMAIN Fields[s] : \E at \in Keys(mapping, s, f) :
           mapping[at].type # Fields[s][f].type

\* unifyStruct, where the tables of a section are walked in any order and so are the keys
\* of each: of the fields with more than one key, the keys that may come last.
Winners(mapping, s) ==
    LET many == {f \in DOMAIN Fields[s] : Cardinality(Keys(mapping, s, f)) > 1}
        later(order, table) == {order[j] : j \in {k \in DOMAIN order :
                                    \E i \in DOMAIN order : order[i] = table /\ i < k}}
    IN {win \in [many -> UNION {Keys(mapping, s, f) : f \in many}] :
            \E order \in SetToSeqs(Sections(mapping, s)) : \A f \in many :
                /\ win[f] \in Keys(mapping, s, f)
                /\ \A table \in later(order, Front(win[f])) :
                      Matching(mapping, table, Fields[s][f].key) = {}}

\* A field without a key is left as it was.
UnifySection(mapping, s, old) ==
    LET only(f) == CHOOSE at \in Keys(mapping, s, f) : TRUE
    IN {[f \in DOMAIN Fields[s] |->
            CASE f \in DOMAIN win -> mapping[win[f]].val
              [] f \notin DOMAIN win /\ Keys(mapping, s, f) # {} -> mapping[only(f)].val
              [] OTHER -> old[f]] : win \in Winners(mapping, s)}

\* What Decode may leave in G.
Decoded(mapping, g) ==
    {[Server |-> server, Client |-> client] :
        server \in UnifySection(mapping, "Server", g.Server),
        client \in UnifySection(mapping, "Client", g.Client)}
=============================================================================
