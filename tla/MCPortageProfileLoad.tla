------------------------ MODULE MCPortageProfileLoad ------------------------
(***************************************************************************)
(* The three levels, make.profile with at most two parents, which may be   *)
(* the same directory twice, and one of which may be the parent of the     *)
(* other.  Packages files add and remove one atom, in either order; or     *)
(* directories package.mask with up to three files mask and unmask two     *)
(* packages, under every repos.conf of at most two lines.                  *)
(***************************************************************************)
EXTENDS PortageProfileLoad

CONSTANTS base, arch, atom, overlay, p1, p2

MCDirs == {base, arch, MakeProfile, UserProfile, Path}
MCRank == [d \in MCDirs |-> IF d = base THEN 0 ELSE IF d = arch THEN 1 ELSE 2]

MCHolds == [r \in {Gentoo, overlay} |-> IF r = Gentoo THEN {p1, p2} ELSE {p2}]
MCRepoOf ==
    [d \in MCDirs |-> IF d = UserProfile THEN NoRepo ELSE IF d = Path THEN overlay ELSE Gentoo]

MCHierarchies ==
    {[d \in MCDirs |->
        CASE d = base -> <<>>
          [] d = arch -> a
          [] d = MakeProfile -> m
          [] d = UserProfile -> <<base>>
          [] d = Path -> p] :
        a \in {<<>>, <<base>>}, m \in BoundedSeq({base, arch}, 2), p \in {<<>>, <<arch, base>>}}

Add == [negate |-> FALSE, atom |-> atom]
Erase == [negate |-> TRUE, atom |-> atom]

MCPackageFiles ==
    {[d \in MCDirs |->
        CASE d = base -> b
          [] d = arch -> a
          [] d = MakeProfile -> m
          [] d = UserProfile -> u
          [] d = Path -> p] :
        b \in {<<>>, <<Add>>}, a \in {<<>>, <<Erase>>, <<Erase, Add>>},
        m \in {<<>>, <<Erase>>, <<Add, Erase>>}, u \in {<<>>, <<Add>>}, p \in {<<>>, <<Erase>>}}

Mask(packages) == [negate |-> FALSE, packages |-> packages]
Unmask(packages) == [negate |-> TRUE, packages |-> packages]
File(name, lines) == [name |-> name, hidden |-> FALSE, lines |-> lines]

MaskDirectories ==
    {{}, {File(1, <<Mask({p1, p2}), Unmask({p2})>>)}, {File(1, <<Unmask({p1}), Mask({p2})>>)},
     {File(1, <<Mask({p1})>>), File(2, <<Unmask({p1, p2}), Mask({p2})>>),
      [name |-> 3, hidden |-> TRUE, lines |-> <<Mask({p1, p2})>>]}}

MCSettings ==
    [hierarchy : MCHierarchies, packages : MCPackageFiles, masks : {[d \in MCDirs |-> {}]}]
    \cup
    {[hierarchy |-> [d \in MCDirs |-> IF d = MakeProfile THEN <<base>> ELSE <<>>],
      packages |-> [d \in MCDirs |-> <<>>],
      masks |-> [d \in MCDirs |->
        CASE d = base -> b [] d = UserProfile -> u [] d = Path -> p [] OTHER -> {}]] :
        b \in MaskDirectories, u \in MaskDirectories, p \in MaskDirectories}

Locations == {NoFile} \cup BoundedSeq({Gentoo, overlay}, 2)

MCSystems ==
    [locations : {NoFile, <<>>}, is_directory : BOOLEAN] \cup
    [locations : Locations, is_directory : {TRUE}]
=============================================================================
