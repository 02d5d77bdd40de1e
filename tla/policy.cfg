\* A Namespace and two triggers, which may be passed over or dropped, with a
\* policy and its parent or an inline policy attached to them, while the policies
\* change.
CONSTANTS
    Slot = 4
    Owner <- OwnerOf
    Namespaces = {1}
    Triggers = {2, 3}
    Base = Base
    Child = Child
    Name = {Base, Child}
    Parent <- ParentOf
    Lineage <- LineageOf
    Rule <- MCRule
    Content <- MCContent
    InlineSpec <- MCInline
    None = None
SPECIFICATION Spec
INVARIANTS TypeOK OneVersion NothingOverlooked NothingInvented DecisionIsVerdict DenialsAreHeard
