-------------------------- MODULE MCMetadataCache --------------------------
(***************************************************************************)
(* Two threads, two objects, and a file that a sync replaces once, with    *)
(* other lines in another order: a dependency of which the rule reads all, *)
(* or the front; the plain description; a key without a member.  The new   *)
(* lines may be written piece by piece: of the description the file may    *)
(* end within the key or the text, of the dependency behind its first      *)
(* element, where the rule reads all there is.                             *)
(***************************************************************************)
EXTENDS MetadataCache, TLC

Read(k, x, how) == [key |-> k, value |-> x, parses |-> how]

Line(k, x, how, fronts) == [key |-> k, value |-> x, parses |-> how, fronts |-> fronts]

MCContents ==
    <<<<Line("DEPEND", "old", "all", <<>>), Line("DESCRIPTION", "old", "nothing", <<>>)>>,
      <<Line("other", "x", "nothing", <<>>),
        Line("DESCRIPTION", "new", "nothing",
             <<Read("other", "DESC", "nothing"), Read("DESCRIPTION", "ne", "nothing")>>),
        Line("DEPEND", "new", "front",
             <<Read("DEPEND", "first", "all")>>)>>>>

MCSymmetry == Permutations(Threads)
=============================================================================
