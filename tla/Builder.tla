------------------------------- MODULE Builder -------------------------------
(***************************************************************************)
(* The configurations that an actor can be built with: actor/builder.rs as *)
(* operators on the configuration under construction, and the defaults of  *)
(* the Spawnable traits (actor/spawner.rs), which build nothing.  The      *)
(* capacity of the mailbox is a constant of Channel.                       *)
(***************************************************************************)

Strategies == {"NonRestartable", "RestartOnly", "RecreateFromDefault"}

\* BaseActorBuilder::new and with_channel; also Environment::unbounded(), which
\* Spawnable::spawn and DefaultSpawnable use.  onStream: the loop is
\* create_loop_on_stream, not create_loop.
Default == [strategy |-> "RestartOnly", timeout |-> FALSE,
            failOnTimeout |-> FALSE, onStream |-> FALSE]

WithTimeout(c) == [c EXCEPT !.timeout = TRUE]
FailOnTimeout(c, fail) == [c EXCEPT !.failOnTimeout = fail]
WithStrategy(c, s) == [c EXCEPT !.strategy = s]
WithStream(c) == [c EXCEPT !.strategy = "NonRestartable", !.onStream = TRUE]

\* StreamSpawnable::spawn_on_stream takes the default environment: the only
\* way to a stream actor whose strategy is not NonRestartable.
SpawnOnStream == [Default EXCEPT !.onStream = TRUE]

\* The setters come in any order, but with_stream ends the building.
Buildable ==
    LET plain == {FailOnTimeout(c, f) :
                    c \in {WithStrategy(t, s) :
                             t \in {Default, WithTimeout(Default)}, s \in Strategies},
                    f \in BOOLEAN}
    IN  plain \cup {WithStream(c) : c \in plain} \cup {SpawnOnStream}

\* Whatever is built, a handler may only be cut short where the loop looks at
\* the timeout: create_loop_on_stream does not.
TimesOut(c) == c.timeout /\ ~ c.onStream

=============================================================================
