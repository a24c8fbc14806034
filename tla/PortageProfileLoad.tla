------------------------- MODULE PortageProfileLoad -------------------------
(***************************************************************************)
(* PortageProfile (profile.cpp): the profile of a system.  repos.conf      *)
(* names the repositories; init_base then makes up to three constructor    *)
(* calls.  The profile that make.profile points to is injected as the      *)
(* parent of the user's profile directory, and that as the parent of the   *)
(* configuration directory itself.                                         *)
(***************************************************************************)
EXTENDS ProfileLoad

CONSTANTS
    Path,           \* /etc/portage
    MakeProfile,    \* what /etc/portage/make.profile points to
    UserProfile,    \* /etc/portage/profile
    Gentoo,         \* the repository of a system without a repos.conf
    Systems         \* the rest of the configuration: records of the locations in
                    \* repos.conf, or NoFile, and whether there is a UserProfile

NoFile == <<"no file">>

ASSUME PortageAssumption ==
    /\ {Path, MakeProfile, UserProfile} \subseteq Dirs /\ Gentoo \in Repos
    /\ Systems \subseteq [locations : Seq(Repos) \cup {NoFile}, is_directory : BOOLEAN]

VARIABLES
    system,         \* the configuration
    repos,          \* the repositories found so far
    phase           \* what the constructor does next

pvars == <<setting, stack, results, system, repos, phase>>

PInit ==
    /\ setting \in Settings
    /\ stack = <<>>
    /\ results = <<>>
    /\ system \in Systems
    /\ repos = <<>>
    /\ phase = "repos"

\* The last call has returned, so many of them having been made.
Returned(calls) == stack = <<>> /\ Len(results) = calls

ThrowAway == phase' = "thrown" /\ UNCHANGED <<setting, stack, results, system>>

\* repos_from_portage without a repos.conf.
DefaultRepos ==
    /\ phase = "repos" /\ system.locations = NoFile
    /\ repos' = <<Gentoo>>
    /\ phase' = "parent_profile"
    /\ UNCHANGED <<setting, stack, results, system>>

\* Its loop over the locations of repos.conf: the directory may be no repository, and
\* a repository may not be named twice.
NextLocation ==
    /\ phase = "repos" /\ system.locations # NoFile /\ Len(repos) < Len(system.locations)
    /\ LET location == system.locations[Len(repos) + 1]
       IN  IF location \in ToSet(repos)
           THEN ThrowAway /\ UNCHANGED repos
           ELSE /\ repos' = Append(repos, location)
                /\ UNCHANGED <<setting, stack, results, system, phase>>

BadLocation ==
    /\ phase = "repos" /\ (system.locations = NoFile \/ Len(repos) < Len(system.locations))
    /\ ThrowAway /\ UNCHANGED repos

EndOfLocations ==
    /\ phase = "repos" /\ system.locations # NoFile /\ Len(repos) = Len(system.locations)
    /\ phase' = "parent_profile"
    /\ UNCHANGED <<setting, stack, results, system, repos>>

\* The profile that make.profile points to gets no repositories.
ParentProfile ==
    /\ phase = "parent_profile"
    /\ stack' = <<Call(MakeProfile, {}, <<>>)>>
    /\ phase' = "user_profile"
    /\ UNCHANGED <<setting, results, system, repos>>

ConstructUserProfile ==
    /\ phase = "user_profile" /\ Returned(1) /\ system.is_directory
    /\ stack' = <<Call(UserProfile, {results[1]}, repos)>>
    /\ phase' = "base"
    /\ UNCHANGED <<setting, results, system, repos>>

\* Without a user profile nothing is injected: user_profile is null.
NoUserProfile ==
    /\ phase = "user_profile" /\ Returned(1) /\ ~system.is_directory
    /\ stack' = <<Call(Path, {}, repos)>>
    /\ phase' = "return"
    /\ UNCHANGED <<setting, results, system, repos>>

\* Mutant of ConstructBase: injects the profile below the user's.
ConstructBaseSkipping ==
    /\ phase = "base" /\ Returned(2)
    /\ stack' = <<Call(Path, {results[1]}, repos)>>
    /\ phase' = "return"
    /\ UNCHANGED <<setting, results, system, repos>>

ConstructBase ==
    /\ phase = "base" /\ Returned(2)
    /\ stack' = <<Call(Path, {results[2]}, repos)>>
    /\ phase' = "return"
    /\ UNCHANGED <<setting, results, system, repos>>

Constructor == Step /\ UNCHANGED <<system, repos, phase>>

PNext ==
    \/ DefaultRepos \/ NextLocation \/ BadLocation \/ EndOfLocations
    \/ ParentProfile \/ ConstructUserProfile \/ NoUserProfile \/ ConstructBase
    \/ Constructor

PSpec == PInit /\ [][PNext]_pvars /\ WF_pvars(PNext)

-----------------------------------------------------------------------------
\* The repositories of repos.conf, or, if it names none, the one around the configuration.
Configured ==
    IF system.locations = NoFile THEN <<Gentoo>>
    ELSE IF system.locations = <<>> THEN <<RepoOf[Path]>> ELSE system.locations

\* The system's profile has the repositories of repos.conf, in their order and each once.
\* With a user profile, it is the three levels on top of each other, whatever parent
\* files the two upper ones have; without, only that of the configuration directory, and
\* nothing of make.profile.
Levels ==
    LET last  == Last(results)
        calls == IF system.is_directory THEN 3 ELSE 2
    IN  phase = "return" /\ Returned(calls) =>
            /\ last.path = Path
            /\ last.repos = Configured /\ IsInjective(last.repos)
            /\ IF system.is_directory
               THEN /\ last.make_defaults_unevaluated =
                            Concatenation[MakeProfile] \o <<UserProfile, Path>>
                    /\ last.packages =
                        Edited(Edited(InPackages[MakeProfile], setting.packages[UserProfile]),
                               setting.packages[Path])
               ELSE Complete(last)
=============================================================================
