---------------------------- MODULE BundleRelease ----------------------------
(***************************************************************************)
(* What the build promises to whoever ships the prefix: a run tests its    *)
(* targets in a prefix that holds nothing of another configuration, leaves *)
(* a published release alone until it has withdrawn it, and describes and  *)
(* publishes only the whole release that is wanted.  Between the runs the  *)
(* prefix may lose anything.                                               *)
(* BundleBuild implements this, see ImplementsRelease there.               *)
(***************************************************************************)
CONSTANTS
    Comp,     \* the components
    Configs,  \* the configurations
    Parts,    \* Parts[c]: the components of a release of c
    Nothing,
    Damaged,  \* some files, but not a component to ship
    Spoilt    \* a component that was finished, with failures nobody noticed

Contents == Configs \cup {Nothing, Damaged, Spoilt}

VARIABLES
    wanted,    \* the configuration asked for
    running,   \* is a run testing its targets?
    content,   \* the configuration that each component belongs to
    described, \* the configuration that the metadata describe
    published  \* is the prefix marked as complete?

vars == <<wanted, running, content, described, published>>

TypeOK ==
    /\ wanted \in Configs
    /\ {running, published} \subseteq BOOLEAN
    /\ content \in [Comp -> Contents]
    /\ described \in Configs \cup {Nothing}

Init ==
    /\ wanted \in Configs
    /\ running = FALSE
    /\ content = [x \in Comp |-> Nothing]
    /\ described = Nothing
    /\ published = FALSE

Holds(c) == \A x \in Parts[c] : content[x] \in {c, Spoilt}
Only(c) == \A x \in Comp \ Parts[c] : content[x] = Nothing

Edit(c) ==
    /\ ~running
    /\ c # wanted
    /\ wanted' = c
    /\ UNCHANGED <<running, content, described, published>>

\* Files go, while no target is being tested.
Decay ==
    /\ ~running
    /\ UNCHANGED <<wanted, running>>
    /\ content' \in [Comp -> Contents]
    /\ \A x \in Comp : content'[x] \in {content[x], Damaged, Nothing}
    /\ described' \in {described, Nothing}
    /\ published' \in {published, FALSE}

\* A run takes the prefix as it is only if all of it is of the wanted
\* configuration, and a published one only if it is that release.
Keep ==
    /\ ~running
    /\ \A x \in Comp : content[x] \in {wanted, Nothing, Damaged, Spoilt}
    /\ published => Holds(wanted) /\ described = wanted
    /\ running' = TRUE
    /\ UNCHANGED <<wanted, content, described, published>>

Clear ==
    /\ ~running
    /\ running' = TRUE
    /\ content' = [x \in Comp |-> Nothing]
    /\ described' = Nothing
    /\ published' = FALSE
    /\ UNCHANGED wanted

\* Components are made, or damaged by a recipe that is cut off.  Of a published
\* release only a spoilt one is touched again, which may or may not help.
Make(S) ==
    /\ running
    /\ content' \in [Comp -> Contents]
    /\ \A x \in Comp \ S : content'[x] = content[x]
    /\ \A x \in S : content'[x] \in {wanted, Damaged, Spoilt}
    /\ published => \A x \in S \cap Parts[wanted] :
                       content[x] = Spoilt /\ content'[x] # Damaged
    /\ running' \in BOOLEAN
    /\ UNCHANGED <<wanted, described, published>>

\* The mark goes before the description.
Withdraw ==
    /\ running
    /\ published' = FALSE
    /\ described' \in {described, Nothing}
    /\ running' \in BOOLEAN
    /\ UNCHANGED <<wanted, content>>

Describe ==
    /\ running
    /\ ~published
    /\ Holds(wanted) /\ Only(wanted)
    /\ described' = wanted
    /\ UNCHANGED <<wanted, running, content, published>>

Publish ==
    /\ running
    /\ Holds(wanted) /\ Only(wanted)
    /\ described = wanted
    /\ published' = TRUE
    /\ running' = FALSE
    /\ UNCHANGED <<wanted, content, described>>

End ==
    /\ running
    /\ running' = FALSE
    /\ UNCHANGED <<wanted, content, described, published>>

Next ==
    \/ Decay
    \/ \E c \in Configs : Edit(c)
    \/ Keep
    \/ Clear
    \/ \E S \in SUBSET Comp : Make(S)
    \/ Withdraw
    \/ Describe
    \/ Publish
    \/ End

Spec == Init /\ [][Next]_vars

=============================================================================
