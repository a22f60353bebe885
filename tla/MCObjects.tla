---- MODULE MCObjects ----
(***************************************************************************)
(* A small instance of Objects for TLC.                                    *)
(***************************************************************************)
EXTENDS Objects

CONSTANTS f, g, r,   \* federates
          a,         \* an attribute
          n,         \* a name
          HLA1, HLA2 \* the names of instances that ask for none

\* r publishes the attribute, f the class without attributes.
MCPublished == [h \in Federates |-> CASE h = r -> {a} [] h = f -> {} [] OTHER -> None]

MCAutoName == <<HLA1, HLA2>>
====
