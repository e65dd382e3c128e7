------------------------------- MODULE Content -------------------------------
(***************************************************************************)
(* How a resource gives the file it wants: as raw content, in section      *)
(* blocks, or in typed blocks; what ValidateConfig makes of it before a    *)
(* run, when a value may still be unknown, and what the operation makes of *)
(* it when every value is known (props.go, sections.go, unitfile.go).      *)
(***************************************************************************)
EXTENDS Naturals, Sequences

CONSTANTS
    Directives,  \* the directives of the sections a resource may write
    Since        \* the release of systemd each of them appeared in

ASSUME SinceAssumption == Since \in [Directives -> Nat]

\* What the configuration gives, once it is known: content, not set or empty, nothing
\* but blanks, or text; section blocks, each the directives it names; and typed blocks,
\* each of whose directives is not set, set, or an empty list.  unknown: the parts of
\* it that are not known before the run, "section" the list of blocks.
Representations ==
    [content : {"null", "blank", "text"}, blocks : Seq(SUBSET Directives),
     typed : [Directives -> {"null", "set", "empty"}],
     unknown : SUBSET ({"content", "section"} \cup Directives)]

-----------------------------------------------------------------------------
(* Before the run: an unknown value counts as none. *)

HasContent(c)  == c.content # "null" /\ "content" \notin c.unknown
HasSections(c) == c.blocks # <<>> /\ "section" \notin c.unknown

\* The directives of typed blocks that carry a value, an empty list too.
Used(c)       == {d \in Directives : c.typed[d] # "null"}
KnownTyped(c) == Used(c) \ c.unknown

HasTypedSections(c) == KnownTyped(c) # {}

\* Mutant: content beside sections is not noticed.
AnyRepresentation(c) == HasContent(c) \/ HasSections(c) \/ HasTypedSections(c)

\* validateContentSectionsTyped: exactly one representation.
OneRepresentation(c) == HasContent(c) # (HasSections(c) \/ HasTypedSections(c))

\* Mutant: the first block without a conflict ends the search.
ConflictInFirst(c) == HasSections(c) /\ c.blocks[1] \cap KnownTyped(c) # {}

\* validateTypedConflicts: a block names a directive that a typed block sets.
Conflict(c) ==
    HasSections(c) /\ \E i \in DOMAIN c.blocks : c.blocks[i] \cap KnownTyped(c) # {}

Validates(c) == OneRepresentation(c) /\ ~Conflict(c)

-----------------------------------------------------------------------------
(* During the run: what typedToFile and sectionsToFile render, and ChooseContent. *)

\* Written by typed blocks: an empty list renders to nothing.
RenderedTyped(c) == {d \in Directives : c.typed[d] = "set"}

\* Written by section blocks, after them.
RenderedSections(c) == UNION {c.blocks[i] : i \in DOMAIN c.blocks}

\* A typed block renders to a section only when it has an entry; a section block, an
\* empty one too.
HasStructure(c) == c.blocks # <<>> \/ RenderedTyped(c) # {}

ChoosesContent(c) == (c.content = "text") # HasStructure(c)
=============================================================================
