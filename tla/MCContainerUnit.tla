-------------------------- MODULE MCContainerUnit --------------------------
(* Instances of ContainerUnit for TLC.                                     *)
EXTENDS ContainerUnit, TLC

Users == {"0", "33", "1000", "9"}
KnownUsers == {"0", "33", "1000"}
Groups == [u \in KnownUsers |-> u]
AnyOverride == {Unset, "1000", "9"}
Hostname == <<<<"HOSTNAME", "node">>>>

Empty == [o \in Options |-> <<>>]

\* Unit files of packages.
Rooted == [Empty EXCEPT !["User"] = <<"root">>, !["Group"] = <<"www">>,
                        !["ExecStart"] = <<<<"rootd", "-f">>>>,
                        !["EnvironmentFile"] = <<"/etc/default/rootd">>]
Own == [Empty EXCEPT !["User"] = <<"www">>, !["Group"] = <<"www">>,
                     !["Type"] = <<"forking">>, !["After"] = <<"network">>,
                     !["ExecStart"] = <<<<"httpd", "-D">>>>,
                     !["Environment"] = <<<<"HOSTNAME", "packaged">>>>]
Groupless == [Own EXCEPT !["Group"] = <<>>]
TwoLines == [Own EXCEPT !["ExecStart"] = <<<<"prep">>, <<"run", "-x">>>>]

SomeFiles == {Rooted, Own, Groupless, TwoLines}

\* Packages: with services, with a unit file that is not listed, and others.
Listing(files) == [known |-> TRUE, listed |-> files, basic |-> <<>>]
Unlisted(file) == [known |-> TRUE, listed |-> <<>>, basic |-> <<file>>]
Plain == Listing(<<>>)
Unknown == [known |-> FALSE, listed |-> <<>>, basic |-> <<Own>>]

Of(package, command, args, env) ==
    [package |-> package, command |-> command, args |-> args, env |-> env]
SomeSpecs == {
    Of(Plain, <<"bash", "-c">>, <<"true">>, <<>>),
    Of(Unknown, <<"/opt/run">>, <<>>, <<>>),
    Of(Plain, <<>>, <<"-v">>, <<>>),
    Of(Listing(<<Rooted>>), <<"sh">>, <<"-c">>, <<<<"HOSTNAME", "mine">>>>),
    Of(Unlisted(Own), <<>>, <<>>, <<<<"A", "1">>, <<"A", "2">>>>),
    Of(Listing(<<Own, Rooted>>), <<"nginx">>, <<>>, <<>>),
    Of(Listing(<<Groupless>>), <<>>, <<"-p", "80">>, <<>>),
    Of(Listing(<<TwoLines>>), <<>>, <<"-y">>, <<>>),
    Of(Listing(<<Unreadable>>), <<>>, <<>>, <<>>)}
FewSpecs == {Of(Plain, <<"bash">>, <<>>, <<>>), Of(Listing(<<Own>>), <<>>, <<>>, <<>>)}
=============================================================================
