\* Every sequence of starts, mode changes and turns, pinned or not.
SPECIFICATION Spec
 
PROPERTY NeverIsAsked
