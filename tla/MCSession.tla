----------------------------- MODULE MCSession -----------------------------
(* A small archive, five descriptors and a handful of keys.                *)
EXTENDS Session

Text(path, data) == [path |-> path, dir |-> FALSE, data |-> data]
Folder(path)     == [path |-> path, dir |-> TRUE, data |-> <<>>]

\* make_initrd's archive in small, with a character that fits a buffer and one
\* that lies across two; a nested file before its directory, with a file that
\* takes an octal carry; and one with a path twice.
archives ==
  { <<Folder(<<"etc">>), Text(<<"about">>, <<>>), Text(<<"etc", "motd">>, <<"a", "c3", "a9", "b">>),
      Text(<<"motd">>, <<"c3", "a9", "d">>)>>,
    <<Text(<<"etc", "motd">>, <<"1", "2", "3", "4", "5", "6", "7", "8", "9">>), Folder(<<"etc">>),
      Text(<<"motd">>, <<"f">>)>>,
    <<Text(<<"motd">>, <<"g">>), Text(<<"motd">>, <<"h">>), Text(<<"etc", "x", "motd">>, <<"i">>)>> }

Abs(comps) == [abs |-> TRUE, comps |-> comps]

paths    == {Abs(<<"dev">>), Abs(<<"dev", "", "kbd">>), Abs(<<"initrd", "motd">>), [abs |-> FALSE, comps |-> <<"dev">>]}
catPaths == {Abs(<<"initrd", "etc", "motd">>), Abs(<<"proc", "uptime">>), Abs(<<"initrd", "motd", "">>)}
texts    == {<<"9", "s">>, <<"1", "0", "s">>}
demo     == <<"h">>
script   == <<"bs", "n", "nl", "c", "nl", "x">>
=============================================================================
