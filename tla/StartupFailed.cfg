SPECIFICATION Spec
INVARIANTS
    ListensWhenChecked
