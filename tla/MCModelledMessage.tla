-------------------------- MODULE MCModelledMessage --------------------------
(***************************************************************************)
(* Instances of ModelledMessage for TLC.                                   *)
(***************************************************************************)
EXTENDS ModelledMessage

MCLogger == [name |-> "g", threshold |-> 4]

\* All four routings of a message that passes the filter, and a message that
\* does not, which is traced.
MCMessages == [id : {Literal("m")}, level : {4}, toLogger : BOOLEAN, toTrace : BOOLEAN]
        \cup {[id |-> Literal("v"), level |-> 6, toLogger |-> TRUE, toTrace |-> TRUE]}

Tag(value) == [kind |-> "Tag", value |-> value, line |-> NoText]
Location(file) == [kind |-> "Location", value |-> file, line |-> Literal("7")]

\* Quotes and backslashes at the start and at the end of a value, before each
\* other and before a plain character; no value; and both attributes at once, in
\* either order, which fill the message if nothing else is written.
MCAttributes ==
    {<<>>,
     <<Tag(<<Quote, Backslash>>)>>,
     <<Tag(<<Backslash, Quote>>)>>,
     <<Location(<<>>)>>,
     <<Location(<<Quote, Literal("a")>>)>>,
     <<Tag(<<Quote>>), Location(<<Backslash>>)>>,
     <<Location(<<Quote>>), Tag(<<Backslash>>)>>}

MCTexts == {Literal("x"), [text |-> "empty", size |-> 0], NoText}
=============================================================================
