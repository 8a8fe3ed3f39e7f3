------------------------------ MODULE MCFraming ------------------------------
(***************************************************************************)
(* Instances of Framing for TLC: the requests clients send.                *)
(***************************************************************************)
EXTENDS Framing

MCLine(v, k, object) == <<Command(v, k), Sym(object), NL>>

\* A verb without its arguments.
MCBare(v) == <<Command(v, NoSize), NL>>

\* Payload bytes that a parser out of step would take for commands.
MCTrap   == <<Command("CMD", NoSize), NL>>
MCFiller == <<Sym("junk"), Sym("nul")>>

\* Requests the server's author had in mind.
MCPoliteRequests ==
  { MCLine("CMD", NoSize, "path"), MCLine("READ_MEM", 1, "path"),
    MCLine("GET_FILE", NoSize, "path"), MCLine("GET_FILE", NoSize, "nowhere"),
    MCLine("STREAM_FILE", NoSize, "path"),
    MCLine("CMD_DETACHED", NoSize, "path"),
    MCBare("WRITE_MEM"),
    MCLine("WRITE_MEM", 2, "path") \o MCTrap,
    MCLine("PUT_FILE", 2, "path") \o MCTrap,
    MCLine("PUT_FILE", 4, "path") \o MCTrap \o MCFiller }

ASSUME MCPolite == \A r \in MCPoliteRequests : Polite(r)

\* Requests that a client may send all the same.
MCRudeRequests ==
  { <<NL>>, <<Sym("junk"), NL>>,
    MCLine("CMD", NoSize, "path"), MCLine("STREAM_FILE", NoSize, "path"),
    MCLine("STREAM_FILE", NoSize, "nowhere"), MCLine("GET_FILE", NoSize, "dir"),
    MCLine("WRITE_MEM", 0, "path"), MCLine("WRITE_MEM", 2, "path") \o MCTrap,
    MCBare("PUT_FILE"), MCBare("WRITE_MEM"), MCLine("PUT_FILE", 0, "path"),
    MCLine("PUT_FILE", 2, "path") \o MCTrap,
    MCLine("PUT_FILE", 2, "dir") \o MCTrap }
=============================================================================
