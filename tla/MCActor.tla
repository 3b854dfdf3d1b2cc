------------------------------- MODULE MCActor -------------------------------
EXTENDS Actor, TLC

\* Sound for safety only: no request is told apart from another.
AnyRequest == Permutations(Messages)

Plain(s) == WithStrategy(Default, s)
Timed(s, fail) == FailOnTimeout(WithTimeout(Plain(s)), fail)

\* Each strategy, each reaction to a timeout, and a stream actor with a timeout
\* that its loop does not look at.
SafetyConfigs ==
    {Plain(s) : s \in Strategies} \cup
    {Timed("RecreateFromDefault", f) : f \in BOOLEAN} \cup
    {WithStream(Timed("RestartOnly", TRUE))}

PlainConfigs == {Plain("RestartOnly")}

\* A stream actor whose stream stays open is an actor without a timeout.  This is
\* the other way to make one.
LiveConfigs == {Timed("RestartOnly", FALSE), SpawnOnStream}

=============================================================================
