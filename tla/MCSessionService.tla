-------------------------- MODULE MCSessionService --------------------------
EXTENDS SessionService, TLC

\* sessions are interchangeable, and so are the goroutines of a session
Symmetry == Permutations(Session) \cup Permutations(Runner)

=============================================================================
