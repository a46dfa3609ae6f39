-------------------------------- MODULE QosXml --------------------------------
(***************************************************************************)
(* The text operations on QoS documents (qos_xml_helpers.cpp), and what    *)
(* the DDS library makes of a document.                                    *)
(*                                                                         *)
(* A document maps the names of its libraries to their profiles, in order. *)
(* (A second library of the same name is left out.)  A profile is          *)
(* [attrs, body]: attrs are the attributes of its tag, in order, that end  *)
(* in `name', that is `name' and `base_name'.  The helpers search the tag  *)
(* for `name=' and stop at the first, which may be `base_name='; the DDS   *)
(* library knows one from the other.                                       *)
(***************************************************************************)
EXTENDS Naturals, Sequences, SequencesExt

CONSTANTS Library, Profile,     \* the names
          Body,                 \* the settings of a profile
          None                  \* no document, no name, no text

\* A tag has an attribute once: the rest is not XML.
Tag == {p \in [attrs : Seq([kind : {"name", "base"}, value : Profile]), body : Body] :
            IsInjective([i \in DOMAIN p.attrs |-> p.attrs[i].kind])}
IsText(doc) == DOMAIN doc \subseteq Library /\ doc \in [DOMAIN doc -> Seq(Tag)]

\* The value of an attribute, as the DDS library reads it.
Attr(p, kind) ==
    LET i == SelectInSeq(p.attrs, LAMBDA a : a.kind = kind)
    IN  IF i = 0 THEN None ELSE p.attrs[i].value

\* opening.find("name="): the name the helpers take a profile to have.
FoundName(p) == IF p.attrs = << >> THEN None ELSE p.attrs[1].value

\* Both agree on the name.
WellOrdered(p) == p.attrs # << >> => p.attrs[1].kind = "name"

\* parse_profiles_from_file(): the profiles a document lists.
ParseProfiles(doc) ==
    IF doc = None THEN {}
    ELSE (UNION {{<<l, FoundName(p)>> : p \in ToSet(doc[l])} : l \in DOMAIN doc})
             \ (Library \X {None})

\* extract_profile_xml_from_content(): a tag matches by any of its names, and
\* the first that does is taken.
Tagged(doc, l, name) ==
    IF doc = None \/ l \notin DOMAIN doc THEN {}
    ELSE {i \in DOMAIN doc[l] : \E a \in ToSet(doc[l][i].attrs) : a.value = name}

\* Mutant: the last tag is taken.
ExtractLastProfile(doc, l, name) ==
    LET is == Tagged(doc, l, name) IN IF is = {} THEN None ELSE doc[l][Max(is)].body
ExtractProfile(doc, l, name) ==
    LET is == Tagged(doc, l, name) IN IF is = {} THEN None ELSE doc[l][Min(is)].body

\* merge_profile_into_library(): the snippet gets the name asked for, in the
\* place of the first name it has, and replaces the profile found under that
\* name or goes to the end of the library.
Renamed(snippet, name) ==
    [snippet EXCEPT !.attrs =
        IF @ = << >> THEN <<[kind |-> "name", value |-> name]>>
                     ELSE [@ EXCEPT ![1].value = name]]

MergeProfile(doc, l, name, snippet) ==
    IF snippet = None \/ l \notin DOMAIN doc THEN None
    ELSE LET p == Renamed(snippet, name)
             i == SelectInSeq(doc[l], LAMBDA q : FoundName(q) = name)
         IN  [doc EXCEPT ![l] = IF i = 0 THEN Append(@, p) ELSE [@ EXCEPT ![i] = p]]

\* The text of a library that exists nowhere yet.
Template(l) == [x \in {l} |-> << >>]

(***************************************************************************)
(* The DDS library (external).  A document loads if every profile has a    *)
(* name of its own and inherits, if at all, from one that stands before it *)
(* in its library.  The QoS of a profile is its own settings over those of *)
(* its base, over those of the base's base, ...                            *)
(***************************************************************************)
Loads(doc) ==
    /\ doc # None
    /\ \A l \in DOMAIN doc : \A i \in DOMAIN doc[l] :
           LET Before(name) == \E j \in 1..(i - 1) : Attr(doc[l][j], "name") = name
               p == doc[l][i]
           IN  /\ Attr(p, "name") # None
               /\ ~Before(Attr(p, "name"))
               /\ Attr(p, "base") # None => Before(Attr(p, "base"))

QosOf(doc, l, name) ==
    LET ps == doc[l]
        At(n) == SelectInSeq(ps, LAMBDA p : Attr(p, "name") = n)
        chain[i \in 0..Len(ps)] ==
            IF i = 0 THEN << >>
            ELSE <<ps[i].body>> \o
                 (IF Attr(ps[i], "base") = None THEN << >> ELSE chain[At(Attr(ps[i], "base"))])
    IN  IF l \in DOMAIN doc THEN chain[At(name)] ELSE << >>
===============================================================================
