----------------------------- MODULE MCKeyCodec -----------------------------
EXTENDS KeyCodec

MCCubes    == {<<"Main">>, <<"Main", "Old">>}
MCEntities == {<<"US">>, <<"DE">>}
=============================================================================
