---------------------------- MODULE MCCodeChange ----------------------------
(* A small repository for TLC, and the replies of an agent. *)
EXTENDS CodeChange

a == <<"a">>
b == <<"d", "b.png">>
c == <<"d", "e", "c">>
dat == <<"dat">>
z == <<"z">>
MCFiles == {a, b, c, dat, z}
MCInitial == {b, c, dat, z}
MCVendored == {dat}
MCAssets == {b}
MCBinary == {z}
MCLarge == {dat}

(* A configuration that includes everything, one that names the model, and *)
(* one of zero days.                                                       *)
Yaml(keys, value) == [syntax |-> "mapping", at |-> [k \in keys |-> value]]
MCYamls == {Yaml({"analysis.exclude"}, {}), Yaml({"model"}, "x"),
            Yaml({"storage.recommendation_ttl_days"}, 0)}
MCRemains == [doc \in MCYamls |-> {Yaml({}, 0)}]

(* Contents 1 to 3 are users' commits; of the agent's, 4 is a whole file,  *)
(* 5 a fragment, 6 differs from 1 in its line ends only, 7 is blank; a     *)
(* body that ends early leaves the fragment.                               *)
Content(plain, lines, chars) == [plain |-> plain, lines |-> lines, chars |-> chars]
MCText == [n \in 0..7 |->
    CASE n = 0 -> Content(0, 0, 0)
      [] n \in {2, 3} -> Content(n, 2, 40)
      [] n = 4 -> Content(4, 8, 180)
      [] n = 5 -> Content(5, 2, 90)
      [] n = 7 -> Content(7, 0, 3)
      [] OTHER -> Content(1, 9, 200)]

MCRest == {5}

Op(path, action, content) ==
    [path |-> path, action |-> action, content |-> content, diff |-> "", explained |-> TRUE]

(* Spellings of c, the files beside it, and what is outside. *)
Operations ==
    {Op(c, "modify", n) : n \in {4, 5, 6}} \cup {Op(<<"d", ".", "e", "c">>, "modify", n) : n \in {0, 4}}
        \cup {Op(<<"d", "..", "a">>, "create", 4), Op(c, "create", 4), Op(a, "", 4)}
        \cup {Op(c, "delete", n) : n \in {0, 7}}
        \cup {Op(<<"..", "a">>, "create", 4), [Op(dat, "delete", 0) EXCEPT !.explained = FALSE]}

(* One operation or two, or a file that was not read. *)
MCReplies == {<<x>> : x \in Operations \cup {Op(b, "create", 4)}} \cup {<<x, y>> : x, y \in Operations}

Symmetry == Permutations(Workers) \cup Permutations(Requests)

=============================================================================
