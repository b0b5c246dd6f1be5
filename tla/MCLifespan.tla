----------------------------- MODULE MCLifespan -----------------------------
(* Small instances of Lifespan for TLC. *)
EXTENDS Lifespan

CONSTANTS p1, p2

next == {<<1, "a">>, <<2, "a">>, <<3, "a">>}
hotfix == {<<1, "a">>, <<3, "a">>}
edited == {<<1, "b">>, <<2, "a">>}
torn == {<<1, "a">>, <<1, "b">>}

MCCodes == {next, hotfix, edited, torn}

Release(fs, s, b, a) ==
    [files |-> fs, store |-> s, bus |-> b, auto |-> a,
     secret |-> TRUE, url |-> TRUE, prod |-> FALSE]

\* Deploys of four directories.  One verifies what the others migrate, one
\* is refused in prod after its migration, one lacks its DATABASE_URL.
MCReleases ==
    {Release(next, "postgres", "postgres", TRUE),
     Release(next, "postgres", "memory", FALSE),
     Release(hotfix, "memory", "postgres", TRUE),
     [Release(edited, "postgres", "memory", TRUE) EXCEPT !.prod = TRUE],
     Release(torn, "postgres", "postgres", FALSE),
     [Release(next, "postgres", "postgres", TRUE) EXCEPT !.url = FALSE]}

=============================================================================
